---------------------------- MODULE Spec2Model ----------------------------
(***************************************************************************)
(* A model of the pixelforge ray tracer: the BVH builder and traversal of  *)
(* bvh.js, the shading pipeline of raytrace.js and of the GLSL fragment    *)
(* shader in shader-source.js, and the shader's constant injection.        *)
(*                                                                         *)
(* Numbers.  JavaScript numbers are IEEE doubles.  The model computes with *)
(* exact rationals extended by +Infinity, -Infinity and NaN (the values a  *)
(* division by zero and 0 * Infinity produce), so rounding error is not    *)
(* modelled but every comparison the code makes is made on the value the   *)
(* code would compare, up to rounding.  Arrays are functions on 0..n-1 as  *)
(* in the source; a vec3 is a 3-tuple, so v[0] of the source is v[1] here. *)
(***************************************************************************)
EXTENDS Integers, Sequences, FiniteSets, TLC

VARIABLES
  triangles,    \* buildBVH's argument: the mesh's triangle list
  triInfos,     \* buildBVH's triInfos array
  nodes,        \* buildBVH's nodes array (the BVH)
  callStack,    \* the activation records of buildNode
  ret,          \* the node index a buildNode call has just returned, or NoRet
  pc,           \* where the BVH program is
  ray,          \* the ray of the running query
  maxT,         \* bvhClosestHit's maxT argument
  maxDist,      \* bvhAnyHit's maxT argument
  bvhStack,     \* _bvhStack, the pre-allocated traversal stack
  stackPtr,     \* bvhTraverse's stackPtr
  best,         \* bvhClosestHit's bestT / bestTriIdx, bvhAnyHit's found
  closestRes,   \* what bvhClosestHit returned
  anyRes,       \* what bvhAnyHit returned
  nodeReads,    \* how many times the running query read nodes[...]
  err           \* TRUE once a TypeError was thrown

VARIABLES
  bvhData,      \* bvhData, the Float32Array behind the BVH texture, by texel
  bvhOff,       \* the texel offset the BVH was packed at (u_bvhOffset)
  gpuStack,     \* the shader's stack[BVH_MAX_STACK]
  gpuSp,        \* the shader's sp
  gpuIter,      \* the shader's loop counter iter
  gpuBest       \* the shader's bestT / found and the triangle of the hit

packVars == <<bvhData, bvhOff, gpuStack, gpuSp, gpuIter, gpuBest>>

bvhVars == <<triangles, triInfos, nodes, callStack, ret, pc, ray, maxT,
             maxDist, bvhStack, stackPtr, best, closestRes, anyRes, nodeReads, err,
             packVars>>

VARIABLES
  path,         \* the hits a traced ray meets, one per traceRay level, and its miss colour
  tstack,       \* the activation records of traceRay
  tret,         \* the colour a traceRay call has just returned, or NoColour
  shadowSeed,   \* _shadowSeed, the state of fastRand
  drawn,        \* history: the values of _shadowSeed fastRand produced for the running trace
  calls         \* history: how many times traceRay was entered for the running trace

traceVars == <<path, tstack, tret, shadowSeed, drawn, calls>>

VARIABLES
  shadePc,      \* where the comparison of the two traceRay implementations is
  cpuCol,       \* what traceRay of raytrace.js returned
  gpuCol,       \* what traceRay of the fragment shader returned
  gpuAccum,     \* the shader's accum
  gpuWeight,    \* the shader's accumWeight
  gpuDepth      \* the shader's loop counter depth

shadeVars == <<shadePc, cpuCol, gpuCol, gpuAccum, gpuWeight, gpuDepth>>

VARIABLES
  aa,           \* RT_AA_GRID
  frame,        \* how many frames mainLoop has rendered
  scene,        \* the scene buildSceneFromObjects built for the running frame
  px, py,       \* the pixel loops of raytraceScene
  ax, ay,       \* the sub-sample loops of raytraceScene
  rr,           \* the colour accumulated for the pixel (rr, rg, rb)
  backBuf,      \* backBuf and zBuf, what putpixel writes
  frontData,    \* frontData, what flip presents
  renderPc,     \* where mainLoop is
  firstTrace,   \* history: what the first trace of each (scene, sub-sample) drew and returned
  lastTrace     \* history: the sub-sample traced last, what it drew and returned

renderVars == <<aa, frame, scene, px, py, ax, ay, rr, backBuf, frontData,
                renderPc, firstTrace, lastTrace>>

VARIABLES
  glOk,         \* whether getContext('webgl2') returned a context
  fragSrc,      \* the fragment shader source as initShaderProgram has it so far
  replIdx,      \* how many of the chained replace calls have been completed
  scanPos,      \* the running replace call's position in the source
  fsCompiled,   \* what compileShader returned for the fragment shader
  gpuProgram,   \* gpuProgram
  injectPc      \* where initGPU is

injectVars == <<glOk, fragSrc, replIdx, scanPos, fsCompiled, gpuProgram, injectPc>>

VARIABLES
  objCount,     \* scene.length
  skipObj,      \* the skipObj argument of the running traceRay
  hitObjIdx,    \* hit.objIdx of the running traceRay, NoHitIdx for a miss
  rayKind,      \* what the last ray was cast for
  rayHits,      \* the distance at which the last ray meets each surface, 0 for none
  tested,       \* the surfaces the last ray was tested against
  bounces,      \* the depth argument of the running traceRay
  skipPc        \* where the traceRay of the skip bookkeeping is

sceneVars == <<objCount, skipObj, hitObjIdx, rayKind, rayHits, tested, bounces, skipPc>>

VARIABLES
  seedGrid,     \* the AA grid size of the frame
  seedA, seedB, \* two sub-samples (px, py, ax, ay) of the frame
  seedsCpu,     \* the values raytraceScene gives _shadowSeed for the two
  seedsGpu,     \* the values the shader's main gives prngSeed for the two
  seedPc        \* whether the seeds have been assigned

seedVars == <<seedGrid, seedA, seedB, seedsCpu, seedsGpu, seedPc>>

VARIABLES
  mcCall,        \* which function is called: generateMetaballMesh or marchingCubes
  mcRes,         \* res, the cells per axis
  balls,         \* the ball list
  gridMin,       \* the corner of the sampling grid
  cellSize,
  field,         \* the field at the grid points
  cellIdx,       \* the cells processed so far
  mcVertices,    \* marchingCubes' vertices
  mcTriangles,   \* marchingCubes' triangles (vertex indices from 0)
  edgeVertexMap, \* edge key -> vertex index
  vertEdge,      \* for each vertex, the corners of the grid edge it was made for
  triEdges,      \* for each triangle, the grid edges of its three cell edges
  mbMesh,        \* what generateMetaballMesh returned
  drawMode,      \* the render mode of the frame drawn from mbMesh
  frameErr,      \* the error the frame threw, or "none"
  meshPc

meshVars == <<mcCall, mcRes, balls, gridMin, cellSize, field, cellIdx, mcVertices,
              mcTriangles, edgeVertexMap, vertEdge, triEdges, mbMesh, drawMode,
              frameErr, meshPc>>

VARIABLES
  ciScene,       \* sceneIntersect's scene: what the ray meets in each instance
  ciEnv,         \* the distance at which the ray meets the environment, 0 for none
  ciSkip,        \* skipObj
  ciResult,      \* what sceneIntersect returned
  ciPc
closestVars == <<ciScene, ciEnv, ciSkip, ciResult, ciPc>>

VARIABLES
  smVertices,    \* smoothMesh's vertices array
  smTriangles,   \* smoothMesh's triangles array
  smStart,       \* the vertices as they were when the relaxation loop began
  smPc
smoothVars == <<smVertices, smTriangles, smStart, smPc>>

moreVars == <<closestVars, smoothVars>>

otherVars == <<sceneVars, seedVars, meshVars, moreVars>>

vars == <<bvhVars, traceVars, shadeVars, renderVars, injectVars, otherVars>>

\* null / undefined: a record, so that it compares with every record.
Null == [k |-> "null"]
\* No value returned yet (a node index otherwise).
NoRet == -1

----------------------------------------------------------------------------
(* Arrays indexed from 0 *)

ALen(a) == Cardinality(DOMAIN a)
EmptyArr == [i \in {} |-> Null]
Push(a, x) == [i \in 0..ALen(a) |-> IF i < ALen(a) THEN a[i] ELSE x]
ArrOf(s) == [i \in 0..(Len(s) - 1) |-> s[i + 1]]

----------------------------------------------------------------------------
(* Numbers: exact rationals with the IEEE special values *)

Abs(x) == IF x < 0 THEN -x ELSE x

RECURSIVE GCD(_, _)
GCD(a, b) == IF b = 0 THEN a ELSE GCD(b, a % b)

\* The rational n/d in lowest terms with a positive denominator.
Fin(n, d) ==
  LET g == GCD(Abs(n), Abs(d))
      s == IF d < 0 THEN -1 ELSE 1
  IN [k |-> "fin", n |-> (s * n) \div g, d |-> Abs(d) \div g]

Infinity == [k |-> "pinf", n |-> 1, d |-> 0]
NegInfinity == [k |-> "ninf", n |-> -1, d |-> 0]
NaN == [k |-> "nan", n |-> 0, d |-> 0]
I(x) == Fin(x, 1)

\* IEEE comparison: every comparison with NaN is false.
XLt(a, b) ==
  CASE a.k = "nan" \/ b.k = "nan" -> FALSE
    [] a.k = "pinf" -> FALSE
    [] b.k = "ninf" -> FALSE
    [] a.k = "ninf" -> TRUE
    [] b.k = "pinf" -> TRUE
    [] OTHER -> a.n * b.d < b.n * a.d
XGt(a, b) == XLt(b, a)
XEq(a, b) ==
  CASE a.k = "nan" \/ b.k = "nan" -> FALSE
    [] a.k = "fin" /\ b.k = "fin" -> a.n * b.d = b.n * a.d
    [] OTHER -> a.k = b.k
XLe(a, b) == XLt(a, b) \/ XEq(a, b)
XGe(a, b) == XLe(b, a)

\* 1.0 / d for an integer d: 1 / 0 is +Infinity.
XInv(d) == IF d = 0 THEN Infinity ELSE Fin(1, d)

\* a * x for an integer a: 0 * Infinity is NaN.
XScale(a, x) ==
  CASE x.k = "fin" -> Fin(a * x.n, x.d)
    [] x.k = "nan" -> NaN
    [] a = 0 -> NaN
    [] (a > 0) = (x.k = "pinf") -> Infinity
    [] OTHER -> NegInfinity

\* IEEE sums and products; finite values are reduced before they are
\* multiplied out so that the intermediate integers stay small.
XNeg(a) ==
  CASE a.k = "pinf" -> NegInfinity
    [] a.k = "ninf" -> Infinity
    [] OTHER -> [a EXCEPT !.n = -a.n]
XAdd(a, b) ==
  CASE a.k = "nan" \/ b.k = "nan" -> NaN
    [] a.k = "fin" /\ b.k = "fin" ->
         LET g == GCD(a.d, b.d)
         IN Fin(a.n * (b.d \div g) + b.n * (a.d \div g), (a.d \div g) * b.d)
    [] a.k = "fin" -> b
    [] b.k = "fin" -> a
    [] a.k = b.k -> a
    [] OTHER -> NaN
XSub(a, b) == XAdd(a, XNeg(b))
XMul(a, b) ==
  CASE a.k = "nan" \/ b.k = "nan" -> NaN
    [] a.k = "fin" /\ b.k = "fin" ->
         LET g1 == GCD(Abs(a.n), b.d)
             g2 == GCD(Abs(b.n), a.d)
         IN Fin((a.n \div g1) * (b.n \div g2), (a.d \div g2) * (b.d \div g1))
    [] a.k = "fin" -> XScale(a.n, b)
    [] b.k = "fin" -> XScale(b.n, a)
    [] a.k = b.k -> Infinity
    [] OTHER -> NegInfinity
\* Math.min / Math.max on values that are not NaN.
XMin(a, b) == IF XLt(b, a) THEN b ELSE a
XMax(a, b) == IF XGt(b, a) THEN b ELSE a

----------------------------------------------------------------------------
(* Program constants *)

RT_EPSILON == Fin(1, 1000000)
BvhStackSize == 64

----------------------------------------------------------------------------
(* The inputs: one vertex array, and meshes that are lists of triangles    *)
(* over it                                                                 *)

MaxTris == 3

\* worldVerts: four triples of vertices per depth plane, see TriPool.
worldVerts == ArrOf(<<
  <<-1, -1, 5>>,  <<3, -1, 5>>,  <<-1, 3, 5>>,     \* 0..2   z = 5, around the z axis
  <<-1, -1, 10>>, <<3, -1, 10>>, <<-1, 3, 10>>,    \* 3..5   z = 10, around the z axis
  <<0, 0, 5>>,    <<4, 0, 5>>,   <<0, 4, 5>>,      \* 6..8   a corner on the z axis
  <<-1, -1, 6>>,  <<3, -1, 8>>,  <<-1, 3, 8>>,     \* 9..11  tilted
  <<5, 5, 5>>,    <<7, 5, 5>>,   <<5, 7, 5>>,      \* 12..14 off to the side
  <<-1, -1, -5>>, <<3, -1, -5>>, <<-1, 3, -5>>,    \* 15..17 behind the origin
  <<16777215, -1, 5>>, <<16777217, -1, 5>>, <<16777215, 3, 5>>
                                                   \* 18..20 far off, 2^24 + 1 is no float32
>>)

TriPool == { <<0, 1, 2>>, <<3, 4, 5>>, <<6, 7, 8>>, <<9, 10, 11>>,
             <<12, 13, 14>>, <<15, 16, 17>> }

Meshes == UNION { [0..(n - 1) -> TriPool] : n \in 0..MaxTris }

\* The meshes that are also uploaded to the GPU: 1..MaxGpuTris triangles
\* taken in turn from four, one of them with a coordinate that is no float32.
MaxGpuTris == 5
GpuTris == << <<0, 1, 2>>, <<3, 4, 5>>, <<9, 10, 11>>, <<18, 19, 20>> >>
GpuMeshes == { [i \in 0..(n - 1) |-> GpuTris[((i + k) % 4) + 1]] :
                 n \in 1..MaxGpuTris, k \in 0..3 }

\* The rays the shader's walks are made with: for these no box of the
\* model gives 0 * Infinity in the shader's slab test, whose min / max of a
\* NaN GLSL leaves undefined.
GpuRays == { [o |-> <<0, 0, 0>>, d |-> <<0, 0, 1>>],
             [o |-> <<0, 0, 0>>, d |-> <<1, 1, 10>>],
             [o |-> <<1, 1, 0>>, d |-> <<0, 0, 1>>] }

\* The rays of the CPU queries: also one parallel to the planes z = const,
\* which meets the tilted triangle, and one that passes beside the
\* hypotenuse of the triangles around the z axis.
Rays == GpuRays \cup { [o |-> <<-2, 0, 7>>, d |-> <<1, 0, 0>>],
                       [o |-> <<4, 0, 0>>, d |-> <<0, 0, 1>>] }

\* maxT of a closest-hit query (sceneIntersect passes Infinity or the
\* nearest t so far) and of an any-hit query (Infinity for a shadow ray, a
\* radius for an AO ray).
ClosestLimits == { Infinity, I(7) }
MaxDists == { I(5), I(7), Infinity }

----------------------------------------------------------------------------
(* bvh.js: ray-primitive intersection *)

Dot(a, b) == a[1] * b[1] + a[2] * b[2] + a[3] * b[3]
Cross(a, b) == << a[2] * b[3] - a[3] * b[2],
                  a[3] * b[1] - a[1] * b[3],
                  a[1] * b[2] - a[2] * b[1] >>
VSub(a, b) == << a[1] - b[1], a[2] - b[2], a[3] - b[3] >>

\* Moeller-Trumbore without the tests u > 1 and u + v > 1.
rayTriangleIntersectNoUpperU(o, d, v0, v1, v2) ==
  LET e1 == VSub(v1, v0)
      e2 == VSub(v2, v0)
      p == Cross(d, e2)
      det == Dot(e1, p)
      tvec == VSub(o, v0)
      q == Cross(tvec, e1)
  IN IF XLt(I(Abs(det)), RT_EPSILON) THEN Null
     ELSE LET u == Fin(Dot(tvec, p), det)
              v == Fin(Dot(d, q), det)
              t == Fin(Dot(e2, q), det)
          IN IF XLt(u, I(0)) THEN Null
             ELSE IF XLt(v, I(0)) THEN Null
             ELSE IF XLt(t, RT_EPSILON) THEN Null
             ELSE [t |-> t, u |-> u, v |-> v]

\* Moeller-Trumbore; Null for a miss, else [t, u, v].
rayTriangleIntersect(o, d, v0, v1, v2) ==
  LET e1 == VSub(v1, v0)
      e2 == VSub(v2, v0)
      p == Cross(d, e2)
      det == Dot(e1, p)
      tvec == VSub(o, v0)
      q == Cross(tvec, e1)
  IN IF XLt(I(Abs(det)), RT_EPSILON) THEN Null
     ELSE LET u == Fin(Dot(tvec, p), det)
              v == Fin(Dot(d, q), det)
              t == Fin(Dot(e2, q), det)
          IN IF XLt(u, I(0)) \/ XGt(u, I(1)) THEN Null
             ELSE IF XLt(v, I(0)) \/ XGt(XAdd(u, v), I(1)) THEN Null
             ELSE IF XLt(t, RT_EPSILON) THEN Null
             ELSE [t |-> t, u |-> u, v |-> v]

\* The slab test.  The three `if (a > b) swap' and the two updates of
\* tmin / tmax are made with IEEE comparisons, so a NaN stays where it is.
rayAABBIntersect(o, d, bmin, bmax) ==
  LET invDx == XInv(d[1])
      invDy == XInv(d[2])
      invDz == XInv(d[3])
      tmin0 == XScale(bmin[1] - o[1], invDx)
      tmax0 == XScale(bmax[1] - o[1], invDx)
      swx == XGt(tmin0, tmax0)
      tmin1 == IF swx THEN tmax0 ELSE tmin0
      tmax1 == IF swx THEN tmin0 ELSE tmax0
      tymin0 == XScale(bmin[2] - o[2], invDy)
      tymax0 == XScale(bmax[2] - o[2], invDy)
      swy == XGt(tymin0, tymax0)
      tymin == IF swy THEN tymax0 ELSE tymin0
      tymax == IF swy THEN tymin0 ELSE tymax0
  IN IF XGt(tmin1, tymax) \/ XGt(tymin, tmax1) THEN FALSE
     ELSE LET tmin == IF XGt(tymin, tmin1) THEN tymin ELSE tmin1
              tmax == IF XLt(tymax, tmax1) THEN tymax ELSE tmax1
              tzmin0 == XScale(bmin[3] - o[3], invDz)
              tzmax0 == XScale(bmax[3] - o[3], invDz)
              swz == XGt(tzmin0, tzmax0)
              tzmin == IF swz THEN tzmax0 ELSE tzmin0
              tzmax == IF swz THEN tzmin0 ELSE tzmax0
          IN XLe(tmin, tzmax) /\ XLe(tzmin, tmax)

----------------------------------------------------------------------------
(* bvh.js: construction *)

SetMin(S) == CHOOSE x \in S : \A y \in S : x <= y
SetMax(S) == CHOOSE x \in S : \A y \in S : x >= y

\* The vertices of the triangles at positions start..end-1 of infos.
RangeVerts(tris, infos, start, end) ==
  { worldVerts[tris[infos[i].idx][c]] : i \in start..(end - 1), c \in 1..3 }

\* A builder that leaves the third vertex of every triangle out of the box.
computeTriangleAABBTwoVerts(tris, infos, start, end) ==
  LET vs == { worldVerts[tris[infos[i].idx][c]] :
                i \in start..(end - 1), c \in 1..2 }
  IN [bmin |-> << SetMin({v[1] : v \in vs}), SetMin({v[2] : v \in vs}),
                  SetMin({v[3] : v \in vs}) >>,
      bmax |-> << SetMax({v[1] : v \in vs}), SetMax({v[2] : v \in vs}),
                  SetMax({v[3] : v \in vs}) >>]

computeTriangleAABB(tris, infos, start, end) ==
  LET vs == RangeVerts(tris, infos, start, end)
  IN [bmin |-> << SetMin({v[1] : v \in vs}), SetMin({v[2] : v \in vs}),
                  SetMin({v[3] : v \in vs}) >>,
      bmax |-> << SetMax({v[1] : v \in vs}), SetMax({v[2] : v \in vs}),
                  SetMax({v[3] : v \in vs}) >>]

\* triInfos[i] of buildBVH.  The centroid coordinates are kept times 3:
\* dividing by 3 does not change their order.
TriInfo(tris, i) ==
  LET v0 == worldVerts[tris[i][1]]
      v1 == worldVerts[tris[i][2]]
      v2 == worldVerts[tris[i][3]]
  IN [idx |-> i, cx |-> v0[1] + v1[1] + v2[1], cy |-> v0[2] + v1[2] + v2[2],
      cz |-> v0[3] + v1[3] + v2[3]]

\* Array.prototype.sort with (a, b) => a[key] - b[key]: a stable sort, so
\* element i of the result is the one with i elements before it in the
\* order (key, original position).
SortByKey(sub, key) ==
  LET n == ALen(sub)
      Before(i, j) == sub[i][key] < sub[j][key]
                      \/ (sub[i][key] = sub[j][key] /\ i < j)
      Rank(j) == Cardinality({i \in 0..(n - 1) : Before(i, j)})
  IN [r \in 0..(n - 1) |-> sub[CHOOSE j \in 0..(n - 1) : Rank(j) = r]]

Slice(a, start, end) == [i \in 0..(end - start - 1) |-> a[start + i]]

\* A write-back that forgets the range's offset: triInfos[i] = sub[i].
WriteBackNoOffset(infos, start, sub) ==
  [i \in DOMAIN infos |-> IF i < ALen(sub) THEN sub[i] ELSE infos[i]]

\* for (i < sub.length) triInfos[start + i] = sub[i]
WriteBack(infos, start, sub) ==
  [i \in DOMAIN infos |->
     IF i >= start /\ i < start + ALen(sub) THEN sub[i - start] ELSE infos[i]]

SplitKey(bmin, bmax) ==
  LET dx == bmax[1] - bmin[1]
      dy == bmax[2] - bmin[2]
      dz == bmax[3] - bmin[3]
  IN IF dx >= dy /\ dx >= dz THEN "cx" ELSE IF dy >= dz THEN "cy" ELSE "cz"

\* A split that puts one triangle to the left and the rest to the right.
MidFirst(start, end) == start + 1

\* start + ((end - start) >> 1)
Mid(start, end) == start + ((end - start) \div 2)

LeafNode(bmin, bmax, triIdx) ==
  [bmin |-> bmin, bmax |-> bmax, left |-> -1, right |-> -1, triIdx |-> triIdx]
\* An inner node that keeps a triangle index as well.
InnerNodeTriZero(bmin, bmax, left, right) ==
  [bmin |-> bmin, bmax |-> bmax, left |-> left, right |-> right, triIdx |-> 0]
InnerNode(bmin, bmax, left, right) ==
  [bmin |-> bmin, bmax |-> bmax, left |-> left, right |-> right, triIdx |-> -1]

Frame(start, end) ==
  [start |-> start, end |-> end, phase |-> "enter", nodeIdx |-> -1,
   bmin |-> <<0, 0, 0>>, bmax |-> <<0, 0, 0>>, left |-> -1]

Top == callStack[Len(callStack)]
Below == SubSeq(callStack, 1, Len(callStack) - 1)

UnchangedQuery ==
  UNCHANGED <<ray, maxT, maxDist, bvhStack, stackPtr, best, closestRes,
              anyRes, nodeReads, err, packVars, traceVars, shadeVars, renderVars,
              injectVars, otherVars>>

\* buildBVH, lines 91-104 and 131: the triInfos array, and the first call
\* of buildNode when there is a triangle.
BuildBVH ==
  /\ pc = "start"
  /\ triInfos' = [i \in DOMAIN triangles |-> TriInfo(triangles, i)]
  /\ nodes' = EmptyArr
  /\ callStack' = IF ALen(triangles) > 0
                  THEN <<Frame(0, ALen(triangles))>> ELSE <<>>
  /\ pc' = "building"
  /\ UNCHANGED <<triangles, ret>>
  /\ UnchangedQuery

\* buildNode, lines 107-124: reserve the slot, compute the box, then either
\* fill in a leaf and return, or sort the range and call buildNode(start, mid).
BuildNode ==
  /\ pc = "building"
  /\ callStack # <<>>
  /\ Top.phase = "enter"
  /\ LET f == Top
         nodeIdx == ALen(nodes)
         box == computeTriangleAABB(triangles, triInfos, f.start, f.end)
     IN IF f.end - f.start = 1
        THEN /\ nodes' = Push(nodes, LeafNode(box.bmin, box.bmax,
                                              triInfos[f.start].idx))
             /\ callStack' = Below
             /\ ret' = nodeIdx
             /\ UNCHANGED triInfos
        ELSE LET key == SplitKey(box.bmin, box.bmax)
                 sub == SortByKey(Slice(triInfos, f.start, f.end), key)
             IN /\ nodes' = Push(nodes, Null)
                /\ triInfos' = WriteBack(triInfos, f.start, sub)
                /\ callStack' = Below \o
                     << [f EXCEPT !.phase = "left", !.nodeIdx = nodeIdx,
                                  !.bmin = box.bmin, !.bmax = box.bmax],
                        Frame(f.start, Mid(f.start, f.end)) >>
                /\ ret' = NoRet
  /\ UNCHANGED <<triangles, pc>>
  /\ UnchangedQuery

\* buildNode, line 125: the left child has returned; call buildNode(mid, end).
BuildNodeRight ==
  /\ pc = "building"
  /\ callStack # <<>>
  /\ Top.phase = "left"
  /\ ret # NoRet
  /\ callStack' = Below \o
       << [Top EXCEPT !.phase = "right", !.left = ret],
          Frame(Mid(Top.start, Top.end), Top.end) >>
  /\ ret' = NoRet
  /\ UNCHANGED <<triangles, triInfos, nodes, pc>>
  /\ UnchangedQuery

\* buildNode, lines 127-128: the right child has returned; fill in the
\* inner node and return its index.
BuildNodeInner ==
  /\ pc = "building"
  /\ callStack # <<>>
  /\ Top.phase = "right"
  /\ ret # NoRet
  /\ nodes' = [nodes EXCEPT ![Top.nodeIdx] =
                 InnerNode(Top.bmin, Top.bmax, Top.left, ret)]
  /\ callStack' = Below
  /\ ret' = Top.nodeIdx
  /\ UNCHANGED <<triangles, triInfos, pc>>
  /\ UnchangedQuery

\* buildBVH, line 132: return nodes.
BuildBVHReturn ==
  /\ pc = "building"
  /\ callStack = <<>>
  /\ pc' = "built"
  /\ ret' = NoRet
  /\ UNCHANGED <<triangles, triInfos, nodes, callStack>>
  /\ UnchangedQuery

----------------------------------------------------------------------------
(* bvh.js: traversal *)

UnchangedBuild ==
  UNCHANGED <<triangles, triInfos, nodes, callStack, ret, packVars, traceVars,
              shadeVars, renderVars, injectVars, otherVars>>

\* _bvhStack is an Int32Array(64), zero-filled when allocated.  It is kept
\* as the sequence of its slots up to the last one written so far (slot i is
\* element i + 1); the slots after that still hold 0.
StackRead(stk, i) ==
  IF i >= 0 /\ i < Len(stk) THEN stk[i + 1]
  ELSE IF i >= 0 /\ i < BvhStackSize THEN 0
  ELSE -1     \* undefined, which is no index of nodes

\* _bvhStack[i] = x: a write past the end of a typed array is dropped.
StackWrite(stk, i, x) ==
  IF i < 0 \/ i >= BvhStackSize THEN stk
  ELSE [j \in 1..(IF i + 1 > Len(stk) THEN i + 1 ELSE Len(stk)) |->
          IF j = i + 1 THEN x ELSE IF j <= Len(stk) THEN stk[j] ELSE 0]

\* The callback of bvhClosestHit (lines 171-181) on the running best.
ClosestOnLeaf(b, r, triIdx) ==
  LET tri == triangles[triIdx]
      hit == rayTriangleIntersect(r.o, r.d, worldVerts[tri[1]],
                                  worldVerts[tri[2]], worldVerts[tri[3]])
  IN IF hit # Null /\ XLt(hit.t, b.t)
     THEN [t |-> hit.t, triIdx |-> triIdx, hit |-> hit]
     ELSE b

\* The callback of bvhAnyHit (lines 195-201): TRUE to stop the walk.
AnyOnLeaf(r, limit, triIdx) ==
  LET tri == triangles[triIdx]
      hit == rayTriangleIntersect(r.o, r.d, worldVerts[tri[1]],
                                  worldVerts[tri[2]], worldVerts[tri[3]])
  IN hit # Null /\ XLt(hit.t, limit)

\* Queries without the early return on an empty BVH.
IsEmptyBVHNever(ns) == FALSE

\* nodes.length === 0, the first line of bvhClosestHit and of bvhAnyHit.
IsEmptyBVH(ns) == ALen(ns) = 0

\* bvhClosestHit, lines 167-169, and bvhTraverse, lines 145-146.
BvhClosestHit ==
  /\ pc = "built"
  /\ \E r \in Rays, m \in ClosestLimits :
       /\ ray' = r
       /\ maxT' = m
       /\ nodeReads' = 0
       /\ IF IsEmptyBVH(nodes)
          THEN /\ closestRes' = Null
               /\ pc' = "closestDone"
               /\ UNCHANGED <<best, bvhStack, stackPtr>>
          ELSE /\ best' = [t |-> m, triIdx |-> -1, hit |-> Null]
               /\ bvhStack' = StackWrite(bvhStack, 0, 0)
               /\ stackPtr' = 1
               /\ pc' = "closest"
               /\ UNCHANGED closestRes
  /\ UNCHANGED <<maxDist, anyRes, err>>
  /\ UnchangedBuild

\* bvhAnyHit, lines 191-193, and bvhTraverse, lines 145-146, for the ray
\* the closest-hit query was made with.
BvhAnyHit ==
  /\ pc = "closestDone"
  /\ \E m \in MaxDists :
       /\ maxDist' = m
       /\ nodeReads' = 0
       /\ IF IsEmptyBVH(nodes)
          THEN /\ anyRes' = FALSE
               /\ pc' = "anyDone"
               /\ UNCHANGED <<best, bvhStack, stackPtr>>
          ELSE /\ best' = [found |-> FALSE]
               /\ bvhStack' = StackWrite(bvhStack, 0, 0)
               /\ stackPtr' = 1
               /\ pc' = "any"
               /\ UNCHANGED anyRes
  /\ UNCHANGED <<ray, maxT, closestRes, err>>
  /\ UnchangedBuild

\* One iteration of the while loop of bvhTraverse, lines 148-159.
BvhTraverse ==
  /\ pc \in {"closest", "any"}
  /\ stackPtr > 0
  /\ LET sp == stackPtr - 1
         popped == StackRead(bvhStack, sp)
         node == IF popped \in DOMAIN nodes THEN nodes[popped] ELSE Null
     IN /\ nodeReads' = nodeReads + 1
        /\ IF node = Null
           THEN \* node.bmin of undefined: a TypeError
                /\ err' = TRUE
                /\ pc' = "error"
                /\ stackPtr' = sp
                /\ UNCHANGED <<bvhStack, best, anyRes>>
           ELSE IF ~rayAABBIntersect(ray.o, ray.d, node.bmin, node.bmax)
           THEN /\ stackPtr' = sp
                /\ UNCHANGED <<bvhStack, best, anyRes, pc, err>>
           ELSE IF node.triIdx >= 0
           THEN IF pc = "closest"
                THEN /\ best' = ClosestOnLeaf(best, ray, node.triIdx)
                     /\ stackPtr' = sp
                     /\ UNCHANGED <<bvhStack, anyRes, pc, err>>
                ELSE IF AnyOnLeaf(ray, maxDist, node.triIdx)
                THEN \* found = true; return
                     /\ best' = [found |-> TRUE]
                     /\ anyRes' = TRUE
                     /\ pc' = "anyDone"
                     /\ stackPtr' = sp
                     /\ UNCHANGED <<bvhStack, err>>
                ELSE /\ stackPtr' = sp
                     /\ UNCHANGED <<bvhStack, best, anyRes, pc, err>>
           ELSE /\ bvhStack' = StackWrite(StackWrite(bvhStack, sp, node.left),
                                          sp + 1, node.right)
                /\ stackPtr' = sp + 2
                /\ UNCHANGED <<best, anyRes, pc, err>>
  /\ UNCHANGED <<ray, maxT, maxDist, closestRes>>
  /\ UnchangedBuild

\* bvhClosestHit, line 183, once the walk has emptied the stack.
BvhClosestHitReturn ==
  /\ pc = "closest"
  /\ stackPtr = 0
  /\ closestRes' = IF best.triIdx >= 0
                   THEN [t |-> best.t, triIdx |-> best.triIdx, hit |-> best.hit]
                   ELSE Null
  /\ pc' = "closestDone"
  /\ UNCHANGED <<ray, maxT, maxDist, bvhStack, stackPtr, best, anyRes,
                 nodeReads, err>>
  /\ UnchangedBuild

\* bvhAnyHit, line 203, once the walk has emptied the stack.
BvhAnyHitReturn ==
  /\ pc = "any"
  /\ stackPtr = 0
  /\ anyRes' = best.found
  /\ pc' = "anyDone"
  /\ UNCHANGED <<ray, maxT, maxDist, bvhStack, stackPtr, best, closestRes,
                 nodeReads, err>>
  /\ UnchangedBuild

----------------------------------------------------------------------------
(* raytrace.js: the pseudo-random generator *)

\* The number of bits of x, for 0 <= x < 2^31.
BitLen(x) == Cardinality({ k \in 0..30 : 2 ^ k <= x })

\* A non-negative integer below 2^62 is kept as [hi, lo], hi * 2^31 + lo
\* with lo < 2^31.  Big(s * 1103515245) for a seed s < 2^31, by 16-bit limbs
\* (1103515245 = 16838 * 2^16 + 20077).
SeedTimesA(s) ==
  LET sh == s \div 65536
      sl == s % 65536
      x == sh * 16838
      y == sh * 20077 + sl * 16838
      z == sl * 20077
      c0 == z % 65536
      t1 == y + z \div 65536
      c1 == t1 % 65536
      t2 == x + t1 \div 65536
  IN [hi |-> t2 * 2 + c1 \div 32768, lo |-> (c1 % 32768) * 65536 + c0]

\* The double nearest to an integer (ties to even): a double holds 53
\* significant bits, so an integer below 2^53 (hi < 2^22) is exact and of a
\* larger one the lowest e = bitlength - 53 bits are rounded away.
RoundToDouble(b) ==
  IF b.hi < 4194304 THEN b
  ELSE LET e == BitLen(b.hi) - 22
           u == 2 ^ e
           r == b.lo % u
           base == b.lo - r
           up == 2 * r > u \/ (2 * r = u /\ (base \div u) % 2 = 1)
       IN IF ~up THEN [hi |-> b.hi, lo |-> base]
          ELSE IF base >= (2147483647 - u) + 1 THEN [hi |-> b.hi + 1, lo |-> 0]
          ELSE [hi |-> b.hi, lo |-> base + u]

\* b + 12345, exactly.
Plus12345(b) ==
  IF b.lo >= 2147471303 THEN [hi |-> b.hi + 1, lo |-> b.lo - 2147471303]
  ELSE [hi |-> b.hi, lo |-> b.lo + 12345]

\* fastRand, line 7: the next _shadowSeed.  The product and the sum are
\* doubles; `& 0x7fffffff' keeps the low 31 bits of the sum.
NextSeed(s) == RoundToDouble(Plus12345(RoundToDouble(SeedTimesA(s)))).lo

----------------------------------------------------------------------------
(* raytrace.js: shading.  A traced ray is given by the hits it meets: what  *)
(* sceneIntersect returns at each level of traceRay (colour, reflectivity   *)
(* and the cosines the shading uses), what occludes the shadow and AO rays  *)
(* fired from the hit, and the colour envColor returns when the ray leaves  *)
(* the scene.  Colours are (r, g, b) triples.                               *)

RT_SPECULAR_EXP == 64
RT_SPECULAR_STR == Fin(1, 2)
RT_SHADOW_SAMPLES == 16
RT_AO_SAMPLES == 8
RT_AO_STRENGTH == Fin(3, 5)
RT_MAX_BOUNCES == 3
ambient == Fin(2, 5)

\* What sceneAnyHit answers for a ray fired from a hit: nothing is in the
\* way ("none"), the hit is enclosed ("all"), or an occluder covers the half
\* space in which the ray's first jittered coordinate is negative ("half"),
\* that is, the draw it was computed from is below 0.5.
OccBlocks(occ, draw) ==
  CASE occ = "none" -> FALSE
    [] occ = "all" -> TRUE
    [] occ = "half" -> draw < 1073741824

\* The next n values of _shadowSeed that successive calls of fastRand
\* produce from seed: the first half of them, then the others from where
\* the first half left the generator.
RECURSIVE Stream(_, _)
Stream(seed, n) ==
  IF n = 0 THEN <<>>
  ELSE IF n = 1 THEN <<NextSeed(seed)>>
  ELSE LET a == Stream(seed, n \div 2)
       IN IF Len(a) = n \div 2
          THEN a \o Stream(a[Len(a)], n - n \div 2)
          ELSE a

\* _shadowSeed after the draws st were made from seed.
SeedAfter(seed, st) == IF st = <<>> THEN seed ELSE st[Len(st)]

\* shadowTest, lines 25-35: three draws per sample (jx, jy, jz), and the
\* sample is blocked if sceneAnyHit says so for the jittered direction.
shadowTest(seed, occ) ==
  LET st == Stream(seed, 3 * RT_SHADOW_SAMPLES)
      blocked == Cardinality({ s \in 0..(RT_SHADOW_SAMPLES - 1) :
                                 OccBlocks(occ, st[3 * s + 1]) })
  IN [draws |-> st, seed |-> SeedAfter(seed, st),
      val |-> Fin(blocked, RT_SHADOW_SAMPLES)]

\* sampleHemisphere, lines 38-47: null when rlen < 0.01.  With r = 2 s / M - 1
\* and M = 0x7fffffff, rlen^2 < 10^-4 is q1^2 + q2^2 + q3^2 < 10^-4 M^2 for
\* q = |2 s - M|; the squares are taken of q / 4096.
TinyDir(s1, s2, s3) ==
  LET Q(s) == Abs(2 * (s - 1073741824) + 1)
      K(s) == Q(s) \div 4096
  IN /\ Q(s1) < 21474837 /\ Q(s2) < 21474837 /\ Q(s3) < 21474837
     /\ K(s1) * K(s1) + K(s2) * K(s2) + K(s3) * K(s3) < 27487790

\* An aoTest that draws nothing for its last sample.
aoTestShort(seed, occ) ==
  LET st == Stream(seed, 3 * (RT_AO_SAMPLES - 1))
  IN [draws |-> st, seed |-> SeedAfter(seed, st), val |-> I(0)]

\* aoTest, lines 50-58: three draws per sample (rx, ry, rz), also when the
\* direction is rejected.
aoTest(seed, occ) ==
  LET st == Stream(seed, 3 * RT_AO_SAMPLES)
      occluded == Cardinality({ s \in 0..(RT_AO_SAMPLES - 1) :
                                  /\ ~TinyDir(st[3 * s + 1], st[3 * s + 2], st[3 * s + 3])
                                  /\ OccBlocks(occ, st[3 * s + 1]) })
  IN [draws |-> st, seed |-> SeedAfter(seed, st),
      val |-> Fin(occluded, RT_AO_SAMPLES)]

\* Math.pow(x, n) for a natural n: pow(x, 0) = 1, pow(1, n) = 1, and
\* otherwise by repeated squaring.
RECURSIVE XPow(_, _)
XPow(x, n) ==
  IF n = 0 \/ x = I(1) THEN I(1)
  ELSE LET h == XPow(x, n \div 2)
           sq == XMul(h, h)
       IN IF n % 2 = 1 THEN XMul(x, sq) ELSE sq

\* A brightness that is not capped at 1, as the rasterizer computes it.
BrightnessUncapped(aoFactor, diffuse) == XAdd(XMul(ambient, aoFactor), diffuse)

\* traceRay, line 161: br.
Brightness(aoFactor, diffuse) ==
  XMin(I(1), XAdd(XMul(ambient, aoFactor), diffuse))

\* traceRay, lines 146-164: the colour of the hit itself.  hit.ndoth is the
\* cosine between the normal and the half vector (0 where the half vector
\* has length 0, which leaves specular at 0 as `hlen > 0' does).
LocalColor(hit, shadow, ao) ==
  LET lit == XSub(I(1), shadow)
      diffuse == XMul(lit, XMax(I(0), hit.ndotl))
      aoFactor == XSub(I(1), XMul(ao, RT_AO_STRENGTH))
      specular == IF XGt(lit, I(0)) /\ XGt(hit.ndotl, I(0)) /\ XGt(hit.ndoth, I(0))
                  THEN XMul(lit, XMul(RT_SPECULAR_STR,
                                      XPow(hit.ndoth, RT_SPECULAR_EXP)))
                  ELSE I(0)
      br == Brightness(aoFactor, diffuse)
  IN [c \in 1..3 |-> XAdd(XMul(I(hit.color[c]), br), XMul(specular, I(255)))]

\* traceRay, lines 169-172: the Fresnel weight of the reflected ray.
Fresnel(reflectivity, ddn) ==
  LET cosTheta == XNeg(ddn)
      f1 == XSub(I(1), cosTheta)
      f2 == XMul(f1, f1)
  IN XAdd(reflectivity,
          XMul(XSub(I(1), reflectivity), XMul(XMul(f2, f2), f1)))

\* A hit: the triangle colour, the instance's reflectivity, N.L, N.H,
\* ddn = D.N, and what the shadow and AO rays fired from it meet.
Hit(color, reflectivity, ndotl, ndoth, ddn, shadowOcc, aoOcc) ==
  [color |-> color, reflectivity |-> reflectivity, ndotl |-> ndotl,
   ndoth |-> ndoth, ddn |-> ddn, shadowOcc |-> shadowOcc, aoOcc |-> aoOcc]

\* An activation record that is given all bounces again.
TraceFrameRefilled(lvl, depth) ==
  [lvl |-> lvl, depth |-> RT_MAX_BOUNCES, phase |-> "enter",
   shadow |-> I(0), ao |-> I(0),
   local |-> <<I(0), I(0), I(0)>>, refl |-> I(0)]

\* An activation record of traceRay: which hit of the path it looks at, the
\* bounces left, where it is, and its locals shadow, ao, (r, g, b) and refl.
TraceFrame(lvl, depth) ==
  [lvl |-> lvl, depth |-> depth, phase |-> "enter",
   shadow |-> I(0), ao |-> I(0),
   local |-> <<I(0), I(0), I(0)>>, refl |-> I(0)]

TraceTop == tstack[Len(tstack)]
TraceBelow == SubSeq(tstack, 1, Len(tstack) - 1)

\* [Math.min(255, r), Math.min(255, g), Math.min(255, b)]
Min255(colour) == [c \in 1..3 |-> XMin(I(255), colour[c])]

\* r * (1 - refl) + ref[0] * refl, and so for g and b.
Blend(local, ref, refl) ==
  [c \in 1..3 |-> XAdd(XMul(local[c], XSub(I(1), refl)), XMul(ref[c], refl))]

\* What tret holds while no traceRay call has returned.
NoColour == <<>>

TraceAtLoad ==
  /\ tstack = <<>>
  /\ tret = NoColour
  /\ shadowSeed = 0
  /\ drawn = <<>>
  /\ calls = 0

UnchangedByTrace ==
  UNCHANGED <<bvhVars, shadeVars, renderVars, injectVars, otherVars>>

\* The running activation with some of its fields changed.
TraceSet(f) == TraceBelow \o <<f>>

\* traceRay, lines 132-140: sceneIntersect; a miss returns envColor.
TraceRayEnter ==
  /\ tstack # <<>>
  /\ TraceTop.phase = "enter"
  /\ calls' = calls + 1
  /\ IF TraceTop.lvl > Len(path.hits)
     THEN /\ tret' = path.miss
          /\ tstack' = TraceBelow
     ELSE /\ tret' = NoColour
          /\ tstack' = TraceSet([TraceTop EXCEPT !.phase = "shadow"])
  /\ UNCHANGED <<path, shadowSeed, drawn>>
  /\ UnchangedByTrace

\* traceRay, line 142: shadow = shadowTest(...).
TraceRayShadow ==
  /\ tstack # <<>>
  /\ TraceTop.phase = "shadow"
  /\ LET sh == shadowTest(shadowSeed, path.hits[TraceTop.lvl].shadowOcc)
     IN /\ shadowSeed' = sh.seed
        /\ drawn' = drawn \o sh.draws
        /\ tstack' = TraceSet([TraceTop EXCEPT !.phase = "ao", !.shadow = sh.val])
  /\ UNCHANGED <<path, tret, calls>>
  /\ UnchangedByTrace

\* traceRay, line 143: ao = aoTest(...).
TraceRayAo ==
  /\ tstack # <<>>
  /\ TraceTop.phase = "ao"
  /\ LET ao == aoTest(shadowSeed, path.hits[TraceTop.lvl].aoOcc)
     IN /\ shadowSeed' = ao.seed
        /\ drawn' = drawn \o ao.draws
        /\ tstack' = TraceSet([TraceTop EXCEPT !.phase = "shade", !.ao = ao.val])
  /\ UNCHANGED <<path, tret, calls>>
  /\ UnchangedByTrace

\* traceRay, lines 145-177 and 184: the hit is shaded, and the colour is
\* either returned or kept while traceRay is called for the reflected ray.
TraceRayShade ==
  /\ tstack # <<>>
  /\ TraceTop.phase = "shade"
  /\ LET hit == path.hits[TraceTop.lvl]
         local == LocalColor(hit, TraceTop.shadow, TraceTop.ao)
     IN IF TraceTop.depth > 0 /\ XGt(hit.reflectivity, I(0))
           /\ XLt(hit.ddn, I(0))
        THEN /\ tstack' = TraceBelow \o
                  << [TraceTop EXCEPT !.phase = "reflect",
                        !.local = local,
                        !.refl = Fresnel(hit.reflectivity, hit.ddn)],
                     TraceFrame(TraceTop.lvl + 1, TraceTop.depth - 1) >>
             /\ tret' = NoColour
        ELSE /\ tstack' = TraceBelow
             /\ tret' = Min255(local)
  /\ UNCHANGED <<path, shadowSeed, drawn, calls>>
  /\ UnchangedByTrace

\* traceRay, lines 177-184: the reflected ray's colour has been returned; it
\* is blended in and the result returned.
TraceRayBlend ==
  /\ tstack # <<>>
  /\ TraceTop.phase = "reflect"
  /\ tret # NoColour
  /\ tret' = Min255(Blend(TraceTop.local, tret, TraceTop.refl))
  /\ tstack' = TraceBelow
  /\ UNCHANGED <<path, shadowSeed, drawn, calls>>
  /\ UnchangedByTrace

----------------------------------------------------------------------------
(* shader-source.js: the fragment shader's traceRay *)

\* shadowTest and aoTest of the shader, lines 330-360, for the occluders
\* whose answer does not depend on the jittered direction.
gpuShadowTest(occ) == CASE occ = "none" -> I(0) [] occ = "all" -> I(1)
gpuAoTest(occ) == CASE occ = "none" -> I(0) [] occ = "all" -> I(1)

\* traceRay (GLSL), lines 376-394: localColor.
gpuLocalColor(hit, shadow, ao) ==
  LET lit == XSub(I(1), shadow)
      diffuse == XMul(lit, XMax(I(0), hit.ndotl))
      aoFactor == XSub(I(1), XMul(ao, RT_AO_STRENGTH))
      specular == IF XGt(lit, I(0)) /\ XGt(hit.ndotl, I(0)) /\ XGt(hit.ndoth, I(0))
                  THEN XMul(lit, XMul(RT_SPECULAR_STR,
                                      XPow(hit.ndoth, RT_SPECULAR_EXP)))
                  ELSE I(0)
      br == XMin(I(1), XAdd(XMul(ambient, aoFactor), diffuse))
  IN [c \in 1..3 |-> XAdd(XMul(I(hit.color[c]), br), XMul(specular, I(255)))]

\* accum + w * colour, component-wise.
MulAdd(accum, w, colour) ==
  [c \in 1..3 |-> XAdd(accum[c], XMul(w, colour[c]))]

\* The negligible-contribution threshold of line 409.
GpuWeightFloor == Fin(1, 100)

ShadeAtLoad ==
  /\ cpuCol = NoColour
  /\ gpuCol = NoColour
  /\ gpuAccum = <<I(0), I(0), I(0)>>
  /\ gpuWeight = I(1)
  /\ gpuDepth = 0

UnchangedByGpu == UNCHANGED <<bvhVars, traceVars, renderVars, injectVars, otherVars>>

\* traceRay (GLSL), lines 364-366: the shader starts on the path the
\* sequential backend has traced.
GpuTraceRay ==
  /\ shadePc = "cpuDone"
  /\ gpuAccum' = <<I(0), I(0), I(0)>>
  /\ gpuWeight' = I(1)
  /\ gpuDepth' = 0
  /\ shadePc' = "gpu"
  /\ UNCHANGED <<cpuCol, gpuCol>>
  /\ UnchangedByGpu

\* traceRay (GLSL), lines 368-420: one iteration of the for loop; a break
\* or the end of the loop returns accum.
GpuTraceIter ==
  /\ shadePc = "gpu"
  /\ IF gpuDepth > RT_MAX_BOUNCES
     THEN /\ gpuCol' = gpuAccum
          /\ shadePc' = "done"
          /\ UNCHANGED <<gpuAccum, gpuWeight, gpuDepth>>
     ELSE IF gpuDepth + 1 > Len(path.hits)
     THEN /\ gpuAccum' = MulAdd(gpuAccum, gpuWeight, path.miss)
          /\ gpuCol' = gpuAccum'
          /\ shadePc' = "done"
          /\ UNCHANGED <<gpuWeight, gpuDepth>>
     ELSE LET hit == path.hits[gpuDepth + 1]
              shadow == gpuShadowTest(hit.shadowOcc)
              ao == gpuAoTest(hit.aoOcc)
              localColor == gpuLocalColor(hit, shadow, ao)
              cosTheta == XNeg(hit.ddn)
              f1 == XSub(I(1), cosTheta)
              f2 == XMul(f1, f1)
              refl == XAdd(hit.reflectivity,
                           XMul(XSub(I(1), hit.reflectivity),
                                XMul(XMul(f2, f2), f1)))
          IN IF gpuDepth < RT_MAX_BOUNCES /\ XGt(hit.reflectivity, I(0))
                /\ XLt(hit.ddn, I(0))
             THEN /\ gpuAccum' = MulAdd(gpuAccum,
                                        XMul(gpuWeight, XSub(I(1), refl)),
                                        localColor)
                  /\ gpuWeight' = XMul(gpuWeight, refl)
                  /\ IF XLt(gpuWeight', GpuWeightFloor)
                     THEN /\ gpuCol' = gpuAccum'
                          /\ shadePc' = "done"
                          /\ UNCHANGED gpuDepth
                     ELSE /\ gpuDepth' = gpuDepth + 1
                          /\ UNCHANGED <<gpuCol, shadePc>>
             ELSE /\ gpuAccum' = MulAdd(gpuAccum, gpuWeight, localColor)
                  /\ gpuCol' = gpuAccum'
                  /\ shadePc' = "done"
                  /\ UNCHANGED <<gpuWeight, gpuDepth>>
  /\ UNCHANGED cpuCol
  /\ UnchangedByGpu

----------------------------------------------------------------------------
(* The traced paths of the shading comparison *)

ShadeHits ==
  { \* matte, facing the camera and the light: L = N = -D, so H = N
    Hit(<<200, 80, 80>>, I(0), I(1), I(1), I(-1), "none", "none"),
    Hit(<<100, 150, 0>>, I(0), I(1), I(1), I(-1), "none", "none"),
    \* a mirror facing the camera and the light
    Hit(<<255, 255, 255>>, Fin(1, 2), I(1), I(1), I(-1), "none", "none"),
    \* the scene's reflectivity 0.2, seen head-on, the light grazing
    Hit(<<180, 190, 200>>, Fin(1, 5), I(0), I(0), I(-1), "none", "none"),
    \* seen at 60 degrees, enclosed by occluders
    Hit(<<200, 100, 50>>, Fin(1, 2), Fin(1, 2), I(0), Fin(-1, 2), "all", "all"),
    \* seen edge-on, the light grazing: ddn = 0, no reflected ray
    Hit(<<200, 80, 80>>, Fin(1, 2), I(0), I(0), I(0), "none", "none") }

MissColors == { <<I(80), I(80), I(80)>>, <<I(255), I(255), I(255)>> }

\* The most hits a path has: one per level of traceRay.
MaxHits == RT_MAX_BOUNCES + 1

ShadePaths ==
  { [hits |-> h, miss |-> m] :
      h \in UNION { [1..n -> ShadeHits] : n \in 0..MaxHits }, m \in MissColors }

\* Paths of reflecting hits that are longer than the bounce limit: a mirror
\* and the scene's reflectivity 0.2, both seen head-on, under an occluder
\* that blocks some of the jittered rays.
BounceHits ==
  { Hit(<<255, 255, 255>>, Fin(1, 2), I(1), I(1), I(-1), "half", "none"),
    Hit(<<180, 190, 200>>, Fin(1, 5), I(0), I(0), I(-1), "none", "half") }
BouncePaths ==
  { [hits |-> h, miss |-> <<I(80), I(80), I(80)>>] :
      h \in UNION { [1..n -> BounceHits] : n \in 0..(RT_MAX_BOUNCES + 2) } }
InitBounce == shadePc = "start" /\ ShadeAtLoad /\ path \in BouncePaths /\ TraceAtLoad

IdleTrace == path = Null /\ TraceAtLoad
IdleShade == shadePc = "idle" /\ ShadeAtLoad
InitShade == shadePc = "start" /\ ShadeAtLoad /\ path \in ShadePaths /\ TraceAtLoad

\* The sequential backend is given the path: traceRay(..., RT_MAX_BOUNCES, -1).
TraceRayCPU ==
  /\ shadePc = "start"
  /\ tstack' = <<TraceFrame(1, RT_MAX_BOUNCES)>>
  /\ tret' = NoColour
  /\ drawn' = <<>>
  /\ calls' = 0
  /\ shadePc' = "cpu"
  /\ UNCHANGED <<path, shadowSeed, cpuCol, gpuCol, gpuAccum, gpuWeight, gpuDepth>>
  /\ UNCHANGED <<bvhVars, renderVars, injectVars, otherVars>>

\* The outermost traceRay has returned.
TraceRayCPUReturn ==
  /\ shadePc = "cpu"
  /\ tstack = <<>>
  /\ tret # NoColour
  /\ cpuCol' = tret
  /\ shadePc' = "cpuDone"
  /\ UNCHANGED <<gpuCol, gpuAccum, gpuWeight, gpuDepth>>
  /\ UNCHANGED <<bvhVars, traceVars, renderVars, injectVars, otherVars>>

\* raytraceScene, line 214: traceRay(..., RT_MAX_BOUNCES, -1), and what that
\* call does until it returns.
NextBounce ==
  \/ TraceRayCPU
  \/ TraceRayEnter
  \/ TraceRayShadow
  \/ TraceRayAo
  \/ TraceRayShade
  \/ TraceRayBlend
  \/ TraceRayCPUReturn

NextShade ==
  \/ TraceRayCPU
  \/ TraceRayEnter
  \/ TraceRayShadow
  \/ TraceRayAo
  \/ TraceRayShade
  \/ TraceRayBlend
  \/ TraceRayCPUReturn
  \/ GpuTraceRay
  \/ GpuTraceIter

----------------------------------------------------------------------------
(* raytrace.js, primitives.js, main.js: rendering a frame on the CPU *)

\* The image, scaled down from 800 x 420.
WIDTH == 2
HEIGHT == 2
\* How many frames mainLoop renders.
MaxFrames == 3

\* The scenes a frame can show (the scene changes with the frame's time),
\* each by the path the primary ray of a sub-sample takes in it.
Scenes == {"A", "B"}

SkyColor == <<I(80), I(80), I(80)>>

ScenePath(sc, x, y, sx, sy) ==
  IF sc = "A"
  THEN \* a matte wall, half in shadow
       [hits |-> << Hit(<<200, 80, 80>>, I(0), Fin(1, 2), I(0), I(-1),
                        "half", "half") >>,
        miss |-> SkyColor]
  ELSE IF (x + y) % 2 = 0
  THEN \* the sky
       [hits |-> <<>>, miss |-> SkyColor]
  ELSE IF sx = 0
  THEN \* a reflective blob in front of the wall
       [hits |-> << Hit(<<180, 190, 200>>, Fin(1, 5), I(1), I(1), I(-1),
                        "half", "none"),
                    Hit(<<200, 80, 80>>, I(0), Fin(1, 2), I(0), I(-1),
                        "none", "half") >>,
        miss |-> SkyColor]
  ELSE \* the blob's rim: the reflected ray leaves the scene
       [hits |-> << Hit(<<180, 190, 200>>, Fin(1, 5), I(1), I(1), I(-1),
                        "half", "none") >>,
        miss |-> SkyColor]

AllPixels == (0..(WIDTH - 1)) \X (0..(HEIGHT - 1))

\* clear(): backBuf.fill(0), zBuf.fill(Infinity).
ClearedBuf == [q \in AllPixels |-> [r |-> 0, g |-> 0, b |-> 0, z |-> Infinity]]

\* ToInt32(v) & 0xff for a finite v >= 0: the integer part, modulo 256.
Byte(v) == (v.n \div v.d) % 256

\* putpixel(x, y, z, r, g, b, 255), lines 49-63.
putpixel(buf, x, y, z, r, g, b) ==
  IF x < 0 \/ x >= WIDTH \/ y < 0 \/ y >= HEIGHT THEN buf
  ELSE IF XGe(z, buf[<<x, y>>].z) THEN buf
  ELSE [buf EXCEPT ![<<x, y>>] =
          [r |-> Byte(r), g |-> Byte(g), b |-> Byte(b), z |-> z]]

\* A sub-sample that goes on with the seed the last one left behind.
SampleSeedKept(prev, y, sy, x, sx, g) == prev

\* raytraceScene, line 207: _shadowSeed (prev before the assignment) is
\* overwritten.
SampleSeed(prev, y, sy, x, sx, g) == (y * g + sy) * WIDTH * g + (x * g + sx)

RenderAtLoad ==
  /\ frame = 0
  /\ scene = Null
  /\ px = 0 /\ py = 0 /\ ax = 0 /\ ay = 0
  /\ rr = <<I(0), I(0), I(0)>>
  /\ backBuf = ClearedBuf
  /\ frontData = ClearedBuf
  /\ renderPc = "idle"
  /\ firstTrace = EmptyArr
  /\ lastTrace = Null

\* raytrace-common.js, line 16: let RT_AA_GRID = 2.
IdleRender == aa = 2 /\ RenderAtLoad

\* main.js, line 13: RT_AA_GRID = aaEnabled ? 2 : 1.
InitRender == aa \in {1, 2} /\ RenderAtLoad

UnchangedByRender == UNCHANGED <<bvhVars, shadeVars, injectVars, otherVars>>

\* mainLoop, lines 105-109, and raytraceScene, lines 189-194: clear, build
\* the scene of this frame, enter the pixel loops.
MainLoopBegin ==
  /\ renderPc = "idle"
  /\ frame < MaxFrames
  /\ \E sc \in Scenes : scene' = sc
  /\ backBuf' = ClearedBuf
  /\ px' = 0 /\ py' = 0 /\ ax' = 0 /\ ay' = 0
  /\ rr' = <<I(0), I(0), I(0)>>
  /\ renderPc' = "trace"
  /\ UNCHANGED <<aa, frame, frontData, firstTrace, lastTrace, traceVars>>
  /\ UnchangedByRender

\* raytraceScene, lines 202-214: a sub-sample reseeds fastRand and calls
\* traceRay for its primary ray.
SubSample ==
  /\ renderPc = "trace"
  /\ py < HEIGHT
  /\ ay < aa
  /\ LET seed0 == SampleSeed(shadowSeed, py, ay, px, ax, aa)
         key == <<scene, px, py, ax, ay>>
     IN /\ shadowSeed' = seed0
        /\ lastTrace' = [key |-> key, prev |-> shadowSeed, seed0 |-> seed0,
                         draws |-> <<>>, col |-> Null,
                         repeat |-> key \in DOMAIN firstTrace, done |-> FALSE]
  /\ path' = ScenePath(scene, px, py, ax, ay)
  /\ tstack' = <<TraceFrame(1, RT_MAX_BOUNCES)>>
  /\ tret' = NoColour
  /\ drawn' = <<>>
  /\ calls' = 0
  /\ renderPc' = "sample"
  /\ UNCHANGED <<aa, frame, scene, px, py, ax, ay, rr, backBuf, frontData,
                 firstTrace>>
  /\ UnchangedByRender

\* raytraceScene, line 215, and the step of the sub-sample loops: traceRay
\* has returned col.
SubSampleReturn ==
  /\ renderPc = "sample"
  /\ tstack = <<>>
  /\ tret # NoColour
  /\ rr' = [c \in 1..3 |-> XAdd(rr[c], tret[c])]
  /\ lastTrace' = [lastTrace EXCEPT !.draws = drawn, !.col = tret, !.done = TRUE]
  /\ firstTrace' = IF lastTrace.key \in DOMAIN firstTrace THEN firstTrace
                   ELSE (lastTrace.key :> lastTrace') @@ firstTrace
  /\ IF ax + 1 < aa THEN ax' = ax + 1 /\ ay' = ay
                    ELSE ax' = 0 /\ ay' = ay + 1
  /\ renderPc' = "trace"
  /\ UNCHANGED <<aa, frame, scene, px, py, backBuf, frontData, traceVars>>
  /\ UnchangedByRender

\* raytraceScene, line 219, and the step of the pixel loops.
PutPixel ==
  /\ renderPc = "trace"
  /\ py < HEIGHT
  /\ ay = aa
  /\ LET avg(c) == XMul(rr[c], Fin(1, aa * aa))
     IN backBuf' = putpixel(backBuf, px, py, I(1000000000), avg(1), avg(2), avg(3))
  /\ IF px + 1 < WIDTH THEN px' = px + 1 /\ py' = py
                       ELSE px' = 0 /\ py' = py + 1
  /\ ax' = 0 /\ ay' = 0
  /\ rr' = <<I(0), I(0), I(0)>>
  /\ UNCHANGED <<aa, frame, scene, frontData, renderPc, firstTrace, lastTrace,
                 traceVars>>
  /\ UnchangedByRender

\* A flip that does not wait for raytraceScene to return.
MainLoopEndEarly ==
  /\ renderPc = "trace"
  /\ frontData' = backBuf
  /\ frame' = frame + 1
  /\ renderPc' = "idle"
  /\ UNCHANGED <<aa, scene, px, py, ax, ay, rr, backBuf, firstTrace, lastTrace,
                 traceVars>>
  /\ UnchangedByRender

\* mainLoop, line 111: flip, once raytraceScene has returned.
MainLoopEnd ==
  /\ renderPc = "trace"
  /\ py = HEIGHT
  /\ frontData' = backBuf
  /\ frame' = frame + 1
  /\ renderPc' = "idle"
  /\ UNCHANGED <<aa, scene, px, py, ax, ay, rr, backBuf, firstTrace, lastTrace,
                 traceVars>>
  /\ UnchangedByRender

NextRender ==
  \/ MainLoopBegin
  \/ SubSample
  \/ TraceRayEnter
  \/ TraceRayShadow
  \/ TraceRayAo
  \/ TraceRayShade
  \/ TraceRayBlend
  \/ SubSampleReturn
  \/ PutPixel
  \/ MainLoopEnd

----------------------------------------------------------------------------
(* shader-source.js: constant injection.  FRAG_SRC is kept as the list of  *)
(* the places where it names a constant the JavaScript side knows: a token *)
(* holds the line, the type GLSL needs there, and the text as a sequence   *)
(* of pieces, an identifier being cut where a shorter pattern ends         *)
(* (TEX_W_SHIFT is TEX_W followed by _SHIFT).                              *)

RT_SHADOW_BIAS == Fin(1, 2)
RT_LIGHT_RADIUS == Fin(3, 20)
RT_AO_RADIUS == 40
TEX_WIDTH == 128
BVH_TEX_WIDTH == 256

Id(name) == [k |-> "id", name |-> name, v |-> I(0)]
IntLit(v) == [k |-> "int", name |-> "", v |-> v]
FloatLit(v) == [k |-> "float", name |-> "", v |-> v]

Token(line, type, text) == [line |-> line, type |-> type, text |-> text]

FRAG_SRC == <<
  Token(61, "float", <<Id("__RT_EPSILON__")>>),
  Token(62, "float", <<Id("__RT_SHADOW_BIAS__")>>),
  Token(63, "float", <<Id("__RT_SPECULAR_EXP__")>>),
  Token(64, "float", <<Id("__RT_SPECULAR_STR__")>>),
  Token(65, "float", <<Id("__RT_LIGHT_RADIUS__")>>),
  Token(66, "int", <<Id("__RT_AO_SAMPLES__")>>),
  Token(67, "float", <<Id("__RT_AO_RADIUS__")>>),
  Token(68, "float", <<Id("__RT_AO_STRENGTH__")>>),
  Token(69, "int", <<Id("__RT_MAX_BOUNCES__")>>),
  Token(84, "int", <<Id("TEX_W")>>),
  Token(84, "int", <<Id("TEX_W"), Id("_SHIFT")>>),
  Token(88, "int", <<Id("BVH_W")>>),
  Token(88, "int", <<Id("BVH_W"), Id("_SHIFT")>>),
  Token(93, "num", <<Id("SCREEN_W")>>),
  Token(94, "num", <<Id("SCREEN_H")>>),
  Token(95, "num", <<Id("SCREEN_W")>>),
  Token(96, "num", <<Id("SCREEN_H")>>),
  Token(329, "int", <<IntLit(I(4))>>),       \* const int SHADOW_GRID = 4
  Token(427, "num", <<Id("SCREEN_H")>>),
  Token(429, "num", <<Id("SCREEN_W")>>),
  Token(430, "num", <<Id("SCREEN_H")>>),
  Token(434, "int", <<Id("__RT_AA_GRID__")>>),
  Token(442, "int", <<Id("SCREEN_W")>>) >>

\* Number.prototype.toString of a JavaScript number: digits only for an
\* integer, a decimal point otherwise.
NumToString(v) == IF v.d = 1 THEN IntLit(v) ELSE FloatLit(v)

\* toGLSLFloat, line 1100: v + '.0' for an integer, String(v) otherwise; a
\* float literal either way.
toGLSLFloat(v) == FloatLit(v)

\* Math.log2(w) | 0
RECURSIVE Log2Floor(_)
Log2Floor(w) == IF w < 2 THEN 0 ELSE 1 + Log2Floor(w \div 2)

Pattern(parts, wordEnd, by) == [parts |-> parts, wordEnd |-> wordEnd, by |-> by]

\* The chained replace calls, lines 1101-1115: the pattern (wordEnd for
\* a trailing \b) and the replacement text.
ReplaceChain == <<
  Pattern(<<"SCREEN_W">>, FALSE, NumToString(I(WIDTH))),
  Pattern(<<"SCREEN_H">>, FALSE, NumToString(I(HEIGHT))),
  Pattern(<<"TEX_W", "_SHIFT">>, FALSE, NumToString(I(Log2Floor(TEX_WIDTH)))),
  Pattern(<<"TEX_W">>, TRUE, NumToString(I(TEX_WIDTH))),
  Pattern(<<"BVH_W", "_SHIFT">>, FALSE, NumToString(I(Log2Floor(BVH_TEX_WIDTH)))),
  Pattern(<<"BVH_W">>, TRUE, NumToString(I(BVH_TEX_WIDTH))),
  Pattern(<<"__RT_EPSILON__">>, FALSE, toGLSLFloat(RT_EPSILON)),
  Pattern(<<"__RT_SHADOW_BIAS__">>, FALSE, toGLSLFloat(RT_SHADOW_BIAS)),
  Pattern(<<"__RT_SPECULAR_EXP__">>, FALSE, toGLSLFloat(I(RT_SPECULAR_EXP))),
  Pattern(<<"__RT_SPECULAR_STR__">>, FALSE, toGLSLFloat(RT_SPECULAR_STR)),
  Pattern(<<"__RT_LIGHT_RADIUS__">>, FALSE, toGLSLFloat(RT_LIGHT_RADIUS)),
  Pattern(<<"__RT_AO_SAMPLES__">>, FALSE, NumToString(I(RT_AO_SAMPLES))),
  Pattern(<<"__RT_AO_RADIUS__">>, FALSE, toGLSLFloat(I(RT_AO_RADIUS))),
  Pattern(<<"__RT_AO_STRENGTH__">>, FALSE, toGLSLFloat(RT_AO_STRENGTH)),
  Pattern(<<"__RT_MAX_BOUNCES__">>, FALSE, NumToString(I(RT_MAX_BOUNCES))) >>

\* Whether the pattern matches the text at piece i.
MatchAt(text, i, pat) ==
  LET n == Len(pat.parts)
  IN /\ i + n - 1 <= Len(text)
     /\ \A j \in 1..n : text[i + j - 1].k = "id"
                        /\ text[i + j - 1].name = pat.parts[j]
     /\ pat.wordEnd => i + n - 1 = Len(text)

\* String.prototype.replace with a /g pattern, on the text of one token.
RECURSIVE ReplaceFrom(_, _, _)
ReplaceFrom(text, i, pat) ==
  IF i > Len(text) THEN <<>>
  ELSE IF MatchAt(text, i, pat)
  THEN <<pat.by>> \o ReplaceFrom(text, i + Len(pat.parts), pat)
  ELSE <<text[i]>> \o ReplaceFrom(text, i + 1, pat)

\* gl.compileShader on the fragment source: every constant must have become
\* one literal of the type GLSL ES needs (no implicit int-to-float
\* conversion); a left-over identifier is undeclared.
Compiles(src) ==
  \A i \in 1..Len(src) :
    /\ Len(src[i].text) = 1
    /\ src[i].text[1].k # "id"
    /\ src[i].type # "num" => src[i].text[1].k = src[i].type

IdleInject ==
  /\ glOk = FALSE
  /\ fragSrc = <<>>
  /\ replIdx = 0
  /\ scanPos = 1
  /\ fsCompiled = FALSE
  /\ gpuProgram = Null
  /\ injectPc = "idle"

InitInject ==
  /\ glOk \in BOOLEAN
  /\ fragSrc = <<>>
  /\ replIdx = 0
  /\ scanPos = 1
  /\ fsCompiled = FALSE
  /\ gpuProgram = Null
  /\ injectPc = "start"

UnchangedByInject == UNCHANGED <<bvhVars, traceVars, shadeVars, renderVars, otherVars>>

\* initGPU, lines 1163-1165, and the entry of initShaderProgram.
InitGPU ==
  /\ injectPc = "start"
  /\ IF glOk
     THEN /\ fragSrc' = FRAG_SRC
          /\ injectPc' = "replace"
     ELSE /\ injectPc' = "noGL"
          /\ UNCHANGED fragSrc
  /\ UNCHANGED <<glOk, replIdx, scanPos, fsCompiled, gpuProgram>>
  /\ UnchangedByInject

\* One replace call of the chain at one place of the source.
ReplaceScan ==
  /\ injectPc = "replace"
  /\ replIdx < Len(ReplaceChain)
  /\ scanPos <= Len(fragSrc)
  /\ fragSrc' = [fragSrc EXCEPT ![scanPos].text =
                   ReplaceFrom(@, 1, ReplaceChain[replIdx + 1])]
  /\ scanPos' = scanPos + 1
  /\ UNCHANGED <<glOk, replIdx, fsCompiled, gpuProgram, injectPc>>
  /\ UnchangedByInject

\* The replace call has reached the end of the source; the next one starts.
ReplaceNext ==
  /\ injectPc = "replace"
  /\ replIdx < Len(ReplaceChain)
  /\ scanPos > Len(fragSrc)
  /\ replIdx' = replIdx + 1
  /\ scanPos' = 1
  /\ UNCHANGED <<glOk, fragSrc, fsCompiled, gpuProgram, injectPc>>
  /\ UnchangedByInject

\* initShaderProgram, lines 1116-1120: compile, link, return.
CompileShaders ==
  /\ injectPc = "replace"
  /\ replIdx = Len(ReplaceChain)
  /\ fsCompiled' = Compiles(fragSrc)
  /\ gpuProgram' = IF Compiles(fragSrc) THEN [k |-> "program"] ELSE Null
  /\ injectPc' = IF Compiles(fragSrc) THEN "ready" ELSE "failed"
  /\ UNCHANGED <<glOk, fragSrc, replIdx, scanPos>>
  /\ UnchangedByInject

NextInject == InitGPU \/ ReplaceScan \/ ReplaceNext \/ CompileShaders

----------------------------------------------------------------------------
(* shader-source.js: the BVH texture and the shader's traversals *)

BVH_MAX_STACK == 32
BVH_TEX_HEIGHT == 256
TEX_HEIGHT == 128
GPU_MAX_ITER == 2048
maxBvhTexels == BVH_TEX_WIDTH * BVH_TEX_HEIGHT

\* A store into a Float32Array rounds the number to the nearest float32,
\* ties to even: an integer of more than 24 bits loses its low bits.
Fround(x) ==
  LET a == Abs(x)
  IN IF a < 16777216 THEN x
     ELSE LET q == 2 ^ (BitLen(a) - 24)
              m == a \div q
              r == a % q
              up == 2 * r > q \/ (2 * r = q /\ m % 2 = 1)
              v == (IF up THEN m + 1 ELSE m) * q
          IN IF x < 0 THEN -v ELSE v

\* A packer that marks a leaf with 0.0, which the shader reads as a child.
PackedKindLeafZero(n) == IF n.triIdx >= 0 THEN 0 ELSE n.left

\* bvhData[base + 3]: -1.0 marks a leaf, else the left child.
PackedKind(n) == IF n.triIdx >= 0 THEN -1 ELSE n.left

\* packBVHNodes(nodes, offset) on bvhData, kept by texel: node i goes to
\* the texels offset + 2i and offset + 2i + 1.  bvhData has maxBvhTexels
\* texels, and a store past the end of a typed array is dropped.
packBVHNodes(data, ns, offset) ==
  LET Texel(t) ==
        LET n == ns[(t - offset) \div 2]
        IN IF (t - offset) % 2 = 0
           THEN << Fround(n.bmin[1]), Fround(n.bmin[2]), Fround(n.bmin[3]),
                   Fround(PackedKind(n)) >>
           ELSE << Fround(n.bmax[1]), Fround(n.bmax[2]), Fround(n.bmax[3]),
                   Fround(IF n.triIdx >= 0 THEN n.triIdx ELSE n.right) >>
      written == { t \in offset..(offset + 2 * ALen(ns) - 1) : t < maxBvhTexels }
  IN [t \in (DOMAIN data) \cup written |->
        IF t \in written THEN Texel(t) ELSE data[t]]

\* fetchBVH(idx) for a texel of the texture; bvhData is zero-filled when
\* allocated.  idx & (BVH_W - 1), idx >> BVH_W_SHIFT is the texel the
\* row-major upload of bvhData put at idx.
fetchBVH(data, idx) ==
  IF idx \in DOMAIN data THEN data[idx] ELSE <<0, 0, 0, 0>>

\* The node the shader reads at a texel (bvhIntersect, lines 184-194 and
\* 227-228): a leaf iff t0.w < 0.0, then int(t1.w) is the triangle;
\* otherwise int(t0.w) and int(t1.w) are the children.  The fourth fields
\* hold integers, which int() leaves as they are.
GpuNode(data, nodeTexel) ==
  LET t0 == fetchBVH(data, nodeTexel)
      t1 == fetchBVH(data, nodeTexel + 1)
  IN [bmin |-> <<t0[1], t0[2], t0[3]>>,
      bmax |-> <<t1[1], t1[2], t1[3]>>,
      left |-> IF t0[4] < 0 THEN -1 ELSE t0[4],
      right |-> IF t0[4] < 0 THEN -1 ELSE t1[4],
      triIdx |-> IF t0[4] < 0 THEN t1[4] ELSE -1]

\* The texel offsets uploadSceneData passes: twice the number of nodes of
\* the objects packed before this one, in a scene whose nodes fit bvhData.
BvhOffsets(ns) == { 0, 6, maxBvhTexels - 2 * ALen(ns) }

\* The GLSL min and max: min(x, y) is y if y < x, else x.
GlslMin(x, y) == IF XLt(y, x) THEN y ELSE x
GlslMax(x, y) == IF XLt(x, y) THEN y ELSE x

\* The shader's rayAABBIntersect (lines 121-129) with invD = 1.0 / rd.
gpuRayAABBIntersect(o, d, bmin, bmax) ==
  LET T0(a) == XScale(bmin[a] - o[a], XInv(d[a]))
      T1(a) == XScale(bmax[a] - o[a], XInv(d[a]))
      tNear == GlslMax(GlslMax(GlslMin(T0(1), T1(1)), GlslMin(T0(2), T1(2))),
                       GlslMin(T0(3), T1(3)))
      tFar == GlslMin(GlslMin(GlslMax(T0(1), T1(1)), GlslMax(T0(2), T1(2))),
                      GlslMax(T0(3), T1(3)))
  IN XLe(tNear, tFar) /\ XGe(tFar, I(0))

\* A vertex as the shader fetches it from vertData, a Float32Array.
GpuVert(i) ==
  << Fround(worldVerts[i][1]), Fround(worldVerts[i][2]), Fround(worldVerts[i][3]) >>

\* rayTriIntersect (lines 102-118) on the triangle ti of the leaf: the
\* tests of rayTriangleIntersect in the same order, vec3(-1.0) for null.
GpuLeafHit(r, ti) ==
  LET tri == triangles[ti]
  IN rayTriangleIntersect(r.o, r.d, GpuVert(tri[1]), GpuVert(tri[2]), GpuVert(tri[3]))

\* hit.t = 1e30 of sceneIntersect: above every t of the model.
GpuNoHit == I(1000000)
GpuLimits == { GpuNoHit, I(7) }

UnchangedByGpuBvh ==
  UNCHANGED <<triangles, triInfos, nodes, callStack, ret, ray, maxT, maxDist,
              bvhStack, stackPtr, best, closestRes, anyRes, nodeReads, err,
              traceVars, shadeVars, renderVars, injectVars, otherVars>>

\* uploadSceneData, line 1237, for the one object of the scene.
PackBVHNodes ==
  /\ pc = "built"
  /\ ALen(nodes) > 0
  /\ \E off \in BvhOffsets(nodes) :
       /\ bvhOff' = off
       /\ bvhData' = packBVHNodes(bvhData, nodes, off)
  /\ pc' = "packed"
  /\ UNCHANGED <<gpuStack, gpuSp, gpuIter, gpuBest>>
  /\ UnchangedByGpuBvh

\* bvhIntersect, lines 178-180: the stack with the root's texel.
GpuBvhIntersect ==
  /\ pc = "packed"
  /\ \E r \in GpuRays, m \in GpuLimits :
       /\ ray' = r
       /\ gpuBest' = [t |-> m, found |-> FALSE, ti |-> -1]
  /\ gpuStack' = <<bvhOff>>
  /\ gpuSp' = 1
  /\ gpuIter' = 0
  /\ pc' = "gpuClosest"
  /\ UNCHANGED <<bvhData, bvhOff>>
  /\ UNCHANGED <<triangles, triInfos, nodes, callStack, ret, maxT, maxDist,
                 bvhStack, stackPtr, best, closestRes, anyRes, nodeReads, err,
                 traceVars, shadeVars, renderVars, injectVars, otherVars>>

\* The shader's bvhAnyHit, lines 276-278.
GpuBvhAnyHit ==
  /\ pc = "packed"
  /\ \E r \in GpuRays, m \in MaxDists :
       /\ ray' = r
       /\ gpuBest' = [t |-> m, found |-> FALSE, ti |-> -1]
  /\ gpuStack' = <<bvhOff>>
  /\ gpuSp' = 1
  /\ gpuIter' = 0
  /\ pc' = "gpuAny"
  /\ UNCHANGED <<bvhData, bvhOff>>
  /\ UNCHANGED <<triangles, triInfos, nodes, callStack, ret, maxT, maxDist,
                 bvhStack, stackPtr, best, closestRes, anyRes, nodeReads, err,
                 traceVars, shadeVars, renderVars, injectVars, otherVars>>

\* if (sp < BVH_MAX_STACK) stack[sp++] = x
GpuPush(stk, x) == IF Len(stk) < BVH_MAX_STACK THEN Append(stk, x) ELSE stk

\* One iteration of the for loop of bvhIntersect (lines 182-233) or of
\* bvhAnyHit (lines 280-303).  gpuStack holds stack[0 .. sp - 1].
GpuBvhIter ==
  /\ pc \in {"gpuClosest", "gpuAny"}
  /\ gpuIter < GPU_MAX_ITER
  /\ gpuSp > 0
  /\ LET nodeTexel == gpuStack[gpuSp]
         popped == SubSeq(gpuStack, 1, gpuSp - 1)
         n == GpuNode(bvhData, nodeTexel)
     IN /\ gpuIter' = gpuIter + 1
        /\ IF ~gpuRayAABBIntersect(ray.o, ray.d, n.bmin, n.bmax)
           THEN /\ gpuStack' = popped
                /\ UNCHANGED <<gpuBest, pc>>
           ELSE IF n.triIdx >= 0
           THEN LET res == GpuLeafHit(ray, n.triIdx)
                    hits == res # Null /\ XGt(res.t, I(0)) /\ XLt(res.t, gpuBest.t)
                IN /\ gpuStack' = popped
                   /\ IF ~hits THEN UNCHANGED <<gpuBest, pc>>
                      ELSE IF pc = "gpuClosest"
                      THEN /\ gpuBest' = [t |-> res.t, found |-> TRUE, ti |-> n.triIdx]
                           /\ UNCHANGED pc
                      ELSE \* return true
                           /\ gpuBest' = [gpuBest EXCEPT !.found = TRUE, !.ti = n.triIdx]
                           /\ pc' = "gpuDone"
           ELSE /\ gpuStack' = GpuPush(GpuPush(popped, bvhOff + n.right * 2),
                                       bvhOff + n.left * 2)
                /\ UNCHANGED <<gpuBest, pc>>
        /\ gpuSp' = Len(gpuStack')
  /\ UNCHANGED <<bvhData, bvhOff>>
  /\ UnchangedByGpuBvh

\* The loop ends: sp <= 0, or iter has reached its limit.
GpuBvhReturn ==
  /\ pc \in {"gpuClosest", "gpuAny"}
  /\ gpuSp <= 0 \/ gpuIter >= GPU_MAX_ITER
  /\ pc' = "gpuDone"
  /\ UNCHANGED packVars
  /\ UnchangedByGpuBvh

\* uploadSceneData, line 1237, in a frame of gpu-raytrace mode for the mesh
\* that bvhClosestHit has been asked about.
PackBVHNodesAfterQuery ==
  /\ pc = "closestDone"
  /\ ray \in GpuRays
  /\ ALen(nodes) > 0
  /\ \E off \in BvhOffsets(nodes) :
       /\ bvhOff' = off
       /\ bvhData' = packBVHNodes(bvhData, nodes, off)
  /\ pc' = "packed"
  /\ UNCHANGED <<gpuStack, gpuSp, gpuIter, gpuBest>>
  /\ UnchangedByGpuBvh

\* bvhIntersect, lines 178-180, for the ray and the limit of that query
\* (hit.t = 1e30 where the CPU passes Infinity).
GpuBvhIntersectSameRay ==
  /\ pc = "packed"
  /\ gpuBest' = [t |-> IF maxT = Infinity THEN GpuNoHit ELSE maxT,
                 found |-> FALSE, ti |-> -1]
  /\ gpuStack' = <<bvhOff>>
  /\ gpuSp' = 1
  /\ gpuIter' = 0
  /\ pc' = "gpuClosest"
  /\ UNCHANGED <<bvhData, bvhOff>>
  /\ UnchangedByGpuBvh

----------------------------------------------------------------------------
(* shader-source.js: an instance without triangles in the shader's scene *)

\* What transformMesh (raytrace-common.js, lines 38-41) returns for a mesh
\* without vertices and triangles: buildBVH builds no node, and bmin and
\* bmax are [0, 0, 0].  uploadSceneData (lines 1229-1239) packs nothing for
\* it, packBVHNodes returning 0, so that the instance packed after it gets
\* the same vOff, tOff and bvhOff: the mesh of this model, packed at bvhOff.
EmptyInstance == [bvhNodes |-> EmptyArr, bmin |-> <<0, 0, 0>>, bmax |-> <<0, 0, 0>>]

\* The texels of bvhData that hold the nodes of the mesh.
MeshTexels == bvhOff..(bvhOff + 2 * ALen(nodes) - 1)

\* The rays for which the shader's slab test of the box [0, 0, 0]..[0, 0, 0]
\* multiplies no 0 by an infinite 1 / rd.
EmptyBoxRays == { r \in GpuRays : \A a \in 1..3 : r.d[a] # 0 \/ r.o[a] # 0 }

\* sceneIntersect (GLSL), lines 242-250, for the instance without
\* triangles: the test of u_bmin, u_bmax, then bvhIntersect with the
\* instance's u_bvhOffset.
GpuSceneIntersectEmpty ==
  /\ pc = "packed"
  /\ \E r \in EmptyBoxRays, m \in GpuLimits :
       /\ ray' = r
       /\ gpuBest' = [t |-> m, found |-> FALSE, ti |-> -1]
       /\ IF gpuRayAABBIntersect(r.o, r.d, EmptyInstance.bmin, EmptyInstance.bmax)
          THEN gpuStack' = <<bvhOff>> /\ gpuSp' = 1 /\ pc' = "gpuClosest"
          ELSE gpuStack' = <<>> /\ gpuSp' = 0 /\ pc' = "gpuDone"
  /\ gpuIter' = 0
  /\ UNCHANGED <<bvhData, bvhOff>>
  /\ UNCHANGED <<triangles, triInfos, nodes, callStack, ret, maxT, maxDist,
                 bvhStack, stackPtr, best, closestRes, anyRes, nodeReads, err,
                 traceVars, shadeVars, renderVars, injectVars, otherVars>>

\* anyHit (GLSL), lines 311-317, for the instance without triangles.
GpuAnyHitEmpty ==
  /\ pc = "packed"
  /\ \E r \in EmptyBoxRays, m \in MaxDists :
       /\ ray' = r
       /\ gpuBest' = [t |-> m, found |-> FALSE, ti |-> -1]
       /\ IF gpuRayAABBIntersect(r.o, r.d, EmptyInstance.bmin, EmptyInstance.bmax)
          THEN gpuStack' = <<bvhOff>> /\ gpuSp' = 1 /\ pc' = "gpuAny"
          ELSE gpuStack' = <<>> /\ gpuSp' = 0 /\ pc' = "gpuDone"
  /\ gpuIter' = 0
  /\ UNCHANGED <<bvhData, bvhOff>>
  /\ UNCHANGED <<triangles, triInfos, nodes, callStack, ret, maxT, maxDist,
                 bvhStack, stackPtr, best, closestRes, anyRes, nodeReads, err,
                 traceVars, shadeVars, renderVars, injectVars, otherVars>>

----------------------------------------------------------------------------
(* raytrace.js: which surfaces a ray is tested against *)

ENV_OBJ_IDX == -2
\* The objIdx kept for a null hit: no instance, not -1, not ENV_OBJ_IDX.
NoHitIdx == ENV_OBJ_IDX - 1

\* Scenes of 0..MaxObjs mesh instances.
MaxObjs == 3
Instances(n) == 0..(n - 1)
Surfaces(n) == Instances(n) \cup {ENV_OBJ_IDX}

\* What a ray meets: for every surface the distance of the hit, 0 for
\* none.  The instances it meets are all at distance 2, the environment
\* is nearer or farther than they.
RayHits(n) ==
  { [s \in Surfaces(n) |-> IF s = ENV_OBJ_IDX THEN e ELSE 2 * b[s]] :
      b \in [Instances(n) -> 0..1], e \in {0, 1, 3} }

\* A sceneAnyHit that skips nothing.
sceneAnyHitSkipsNothing(n, T, skip) ==
  LET hitting == { oi \in Instances(n) : T[oi] > 0 }
      first == IF hitting = {} THEN n ELSE SetMin(hitting)
  IN [tested |-> { oi \in Instances(n) : oi <= first }
                   \cup (IF hitting = {} THEN {ENV_OBJ_IDX} ELSE {}),
      res |-> hitting # {} \/ T[ENV_OBJ_IDX] > 0]

\* sceneAnyHit for a ray that meets the surfaces as T says: the instances
\* other than skipObj in order, up to the first that occludes the ray, then
\* the environment unless skipObj is ENV_OBJ_IDX.
sceneAnyHit(n, T, skip) ==
  LET cand == { oi \in Instances(n) : oi # skip }
      hitting == { oi \in cand : T[oi] > 0 }
      first == IF hitting = {} THEN n ELSE SetMin(hitting)
      env == hitting = {} /\ skip # ENV_OBJ_IDX
  IN [tested |-> { oi \in cand : oi <= first }
                   \cup (IF env THEN {ENV_OBJ_IDX} ELSE {}),
      res |-> hitting # {} \/ (env /\ T[ENV_OBJ_IDX] > 0)]

\* sceneIntersect: every instance other than skipObj, an instance
\* replacing the hit so far only when it is nearer, then the environment
\* unless skipObj is ENV_OBJ_IDX, taken only when it is nearer.
sceneIntersect(n, T, skip) ==
  LET cand == { oi \in Instances(n) : oi # skip }
      hitting == { oi \in cand : T[oi] > 0 }
      closestT == SetMin({ T[oi] : oi \in hitting })
      obj == IF hitting = {} THEN NoHitIdx
             ELSE SetMin({ oi \in hitting : T[oi] = closestT })
      env == skip # ENV_OBJ_IDX
  IN [tested |-> cand \cup (IF env THEN {ENV_OBJ_IDX} ELSE {}),
      objIdx |-> IF env /\ T[ENV_OBJ_IDX] > 0
                    /\ (hitting = {} \/ T[ENV_OBJ_IDX] < closestT)
                 THEN ENV_OBJ_IDX ELSE obj]

SceneAtLoad ==
  /\ skipObj = -1
  /\ hitObjIdx = NoHitIdx
  /\ rayKind = "none"
  /\ rayHits = [s \in {ENV_OBJ_IDX} |-> 0]
  /\ tested = {}
  /\ bounces = 0
IdleScene == objCount = 0 /\ skipPc = "idle" /\ SceneAtLoad
InitScene == objCount \in 0..MaxObjs /\ skipPc = "start" /\ SceneAtLoad

UnchangedByScene ==
  UNCHANGED <<bvhVars, traceVars, shadeVars, renderVars, injectVars, seedVars, meshVars,
              moreVars>>

\* raytraceScene, line 214, and traceRay, line 133: a primary ray.
TraceRayPrimary ==
  /\ skipPc = "start"
  /\ \E T \in RayHits(objCount) :
       LET hit == sceneIntersect(objCount, T, -1)
       IN /\ rayHits' = T
          /\ tested' = hit.tested
          /\ hitObjIdx' = hit.objIdx
          /\ skipPc' = IF hit.objIdx = NoHitIdx THEN "done" ELSE "hit"
  /\ skipObj' = -1
  /\ bounces' = RT_MAX_BOUNCES
  /\ rayKind' = "primary"
  /\ UNCHANGED objCount
  /\ UnchangedByScene

\* One sample of shadowTest, line 32, called on line 142 with objIdx.
ShadowRay ==
  /\ skipPc \in {"hit", "shadow"}
  /\ \E T \in RayHits(objCount) :
       /\ rayHits' = T
       /\ tested' = sceneAnyHit(objCount, T, hitObjIdx).tested
  /\ rayKind' = "shadow"
  /\ skipPc' = "shadow"
  /\ UNCHANGED <<objCount, skipObj, hitObjIdx, bounces>>
  /\ UnchangedByScene

\* One sample of aoTest, line 55, called on line 143 with objIdx.
AoRay ==
  /\ skipPc \in {"shadow", "ao"}
  /\ \E T \in RayHits(objCount) :
       /\ rayHits' = T
       /\ tested' = sceneAnyHit(objCount, T, hitObjIdx).tested
  /\ rayKind' = "ao"
  /\ skipPc' = "ao"
  /\ UNCHANGED <<objCount, skipObj, hitObjIdx, bounces>>
  /\ UnchangedByScene

\* traceRay, lines 166-178: the reflection ray, traced with skipObj =
\* objIdx.  An environment hit has reflectivity 0 and reflects nothing.
ReflectRay ==
  /\ skipPc = "ao"
  /\ bounces > 0
  /\ hitObjIdx # ENV_OBJ_IDX
  /\ \E T \in RayHits(objCount) :
       LET hit == sceneIntersect(objCount, T, hitObjIdx)
       IN /\ rayHits' = T
          /\ tested' = hit.tested
          /\ hitObjIdx' = hit.objIdx
          /\ skipPc' = IF hit.objIdx = NoHitIdx THEN "done" ELSE "hit"
  /\ skipObj' = hitObjIdx
  /\ bounces' = bounces - 1
  /\ rayKind' = "reflection"
  /\ UNCHANGED objCount
  /\ UnchangedByScene

\* traceRay, line 184, for a hit that casts no reflection ray.
TraceRayNoReflection ==
  /\ skipPc = "ao"
  /\ skipPc' = "done"
  /\ UNCHANGED <<objCount, skipObj, hitObjIdx, rayKind, rayHits, tested, bounces>>
  /\ UnchangedByScene

NextScene ==
  \/ TraceRayPrimary
  \/ ShadowRay
  \/ AoRay
  \/ ReflectRay
  \/ TraceRayNoReflection

----------------------------------------------------------------------------
(* raytrace.js and the shader's main: the PRNG seed of a sub-sample *)

\* A natural number below 2^64 as its eight base-256 digits, lowest first:
\* the seeds of a large AA grid do not fit the integers of the checker.
Big(n) == [i \in 1..8 |-> IF i > 4 THEN 0 ELSE (n \div (256 ^ (i - 1))) % 256]

RECURSIVE MulCarry(_, _, _)
MulCarry(a, m, i) ==
  IF i = 1 THEN 0 ELSE (a[i - 1] * m + MulCarry(a, m, i - 1)) \div 256
\* a * m for 0 <= m < 2^20.
BigMulSmall(a, m) == [i \in 1..8 |-> (a[i] * m + MulCarry(a, m, i)) % 256]

RECURSIVE AddCarry(_, _, _)
AddCarry(a, b, i) ==
  IF i = 1 THEN 0 ELSE (a[i - 1] + b[i - 1] + AddCarry(a, b, i - 1)) \div 256
BigAdd(a, b) == [i \in 1..8 |-> (a[i] + b[i] + AddCarry(a, b, i)) % 256]

\* The low 32 bits: what int and uint arithmetic of GLSL ES 3.00 keeps.
Wrap32(a) == [i \in 1..8 |-> IF i <= 4 THEN a[i] ELSE 0]

\* a <= 2^32
AtMostTwoTo32(a) ==
  /\ \A i \in 6..8 : a[i] = 0
  /\ a[5] = 0 \/ (a[5] = 1 /\ \A i \in 1..4 : a[i] = 0)

\* raytraceScene, line 207: (py * aa + ay) * WIDTH * aa + (px * aa + ax), in
\* doubles, which are exact below 2^53.
CpuSeed(g, t) ==
  BigAdd(BigMulSmall(Big(t.py * g + t.ay), WIDTH * g), Big(t.px * g + t.ax))

\* A shader seed that leaves the sub-sample column out.
GpuSeedNoColumn(g, t) ==
  Wrap32(BigAdd(BigMulSmall(BigMulSmall(Big(t.py * WIDTH + t.px), g), g),
                BigMulSmall(Big(t.ay), g)))

\* The shader's main, line 442: uint(int(py) * SCREEN_W * AA * AA
\* + int(px) * AA * AA + ay * AA + ax), in 32-bit integers.
GpuSeed(g, t) ==
  Wrap32(BigAdd(BigMulSmall(BigMulSmall(Big(t.py * WIDTH + t.px), g), g),
                BigAdd(BigMulSmall(Big(t.ay), g), Big(t.ax))))

\* The AA grid sizes: RT_AA_GRID is 1 or 2 (part_000, line 13); 3 and one
\* large grid stand for the other values RT_AA_GRID may be set to.
LargeAA == 65536
AAGrids == { 1, 2, 3, LargeAA }

\* The sub-samples of a frame: every pixel, the first two and the last
\* sub-sample row and column.
SubSamples(g) ==
  { [px |-> x, py |-> y, ax |-> sx, ay |-> sy] :
      x \in 0..(WIDTH - 1), y \in 0..(HEIGHT - 1),
      sx \in {0, 1, g - 1} \cap (0..(g - 1)), sy \in {0, 1, g - 1} \cap (0..(g - 1)) }

SeedAtLoad ==
  /\ seedsCpu = <<>>
  /\ seedsGpu = <<>>
IdleSeed ==
  /\ seedGrid = 1
  /\ seedA = Null /\ seedB = Null
  /\ seedPc = "idle"
  /\ SeedAtLoad
InitSeed ==
  /\ seedGrid \in AAGrids
  /\ seedA \in SubSamples(seedGrid)
  /\ seedB \in SubSamples(seedGrid)
  /\ seedPc = "start"
  /\ SeedAtLoad

\* The seed assignments of two sub-samples of one frame, on both backends.
SeedSubSamples ==
  /\ seedPc = "start"
  /\ seedsCpu' = << CpuSeed(seedGrid, seedA), CpuSeed(seedGrid, seedB) >>
  /\ seedsGpu' = << GpuSeed(seedGrid, seedA), GpuSeed(seedGrid, seedB) >>
  /\ seedPc' = "seeded"
  /\ UNCHANGED <<seedGrid, seedA, seedB, sceneVars, meshVars, moreVars>>
  /\ UNCHANGED <<bvhVars, traceVars, shadeVars, renderVars, injectVars>>

NextSeedSpec == SeedSubSamples

----------------------------------------------------------------------------
(* shader-source.js, lines 456-992: the metaball mesh generator *)

\* Products and comparison of the base-256 numbers (see Big).
RECURSIVE Conv(_, _, _, _)
Conv(a, b, k, i) ==
  IF i > k THEN 0 ELSE a[i] * b[k + 1 - i] + Conv(a, b, k, i + 1)
RECURSIVE ConvCarry(_, _, _)
ConvCarry(a, b, k) ==
  IF k = 1 THEN 0 ELSE (Conv(a, b, k - 1, 1) + ConvCarry(a, b, k - 1)) \div 256
BigMul(a, b) == [k \in 1..8 |-> (Conv(a, b, k, 1) + ConvCarry(a, b, k)) % 256]
BigLe(a, b) ==
  \/ a = b
  \/ \E i \in 1..8 : a[i] < b[i] /\ \A j \in (i + 1)..8 : a[j] = b[j]

\* An edge table that marks no edge of any cell as crossed.
EdgeTableEmpty == [code \in 1..256 |-> 0]

\* EDGE_TABLE[cubeIndex]: the bit mask of the edges of a cell that are crossed.
EDGE_TABLE ==
  <<
    0, 265, 515, 778, 1030, 1295, 1541, 1804,
    2060, 2309, 2575, 2822, 3082, 3331, 3593, 3840,
    400, 153, 915, 666, 1430, 1183, 1941, 1692,
    2460, 2197, 2975, 2710, 3482, 3219, 3993, 3728,
    560, 825, 51, 314, 1590, 1855, 1077, 1340,
    2620, 2869, 2111, 2358, 3642, 3891, 3129, 3376,
    928, 681, 419, 170, 1958, 1711, 1445, 1196,
    2988, 2725, 2479, 2214, 4010, 3747, 3497, 3232,
    1120, 1385, 1635, 1898, 102, 367, 613, 876,
    3180, 3429, 3695, 3942, 2154, 2403, 2665, 2912,
    1520, 1273, 2035, 1786, 502, 255, 1013, 764,
    3580, 3317, 4095, 3830, 2554, 2291, 3065, 2800,
    1616, 1881, 1107, 1370, 598, 863, 85, 348,
    3676, 3925, 3167, 3414, 2650, 2899, 2137, 2384,
    1984, 1737, 1475, 1226, 966, 719, 453, 204,
    4044, 3781, 3535, 3270, 3018, 2755, 2505, 2240,
    2240, 2505, 2755, 3018, 3270, 3535, 3781, 4044,
    204, 453, 719, 966, 1226, 1475, 1737, 1984,
    2384, 2137, 2899, 2650, 3414, 3167, 3925, 3676,
    348, 85, 863, 598, 1370, 1107, 1881, 1616,
    2800, 3065, 2291, 2554, 3830, 4095, 3317, 3580,
    764, 1013, 255, 502, 1786, 2035, 1273, 1520,
    2912, 2665, 2403, 2154, 3942, 3695, 3429, 3180,
    876, 613, 367, 102, 1898, 1635, 1385, 1120,
    3232, 3497, 3747, 4010, 2214, 2479, 2725, 2988,
    1196, 1445, 1711, 1958, 170, 419, 681, 928,
    3376, 3129, 3891, 3642, 2358, 2111, 2869, 2620,
    1340, 1077, 1855, 1590, 314, 51, 825, 560,
    3728, 3993, 3219, 3482, 2710, 2975, 2197, 2460,
    1692, 1941, 1183, 1430, 666, 915, 153, 400,
    3840, 3593, 3331, 3082, 2822, 2575, 2309, 2060,
    1804, 1541, 1295, 1030, 778, 515, 265, 0
  >>

\* TRI_TABLE[cubeIndex]: the edges whose vertices form the triangles of a
\* cell, three per triangle, ended by -1.
TRI_TABLE ==
  <<
    <<-1>>,
    <<0, 8, 3, -1>>,
    <<0, 1, 9, -1>>,
    <<1, 8, 3, 9, 8, 1, -1>>,
    <<1, 2, 10, -1>>,
    <<0, 8, 3, 1, 2, 10, -1>>,
    <<9, 2, 10, 0, 2, 9, -1>>,
    <<2, 8, 3, 2, 10, 8, 10, 9, 8, -1>>,
    <<3, 11, 2, -1>>,
    <<0, 11, 2, 8, 11, 0, -1>>,
    <<1, 9, 0, 2, 3, 11, -1>>,
    <<1, 11, 2, 1, 9, 11, 9, 8, 11, -1>>,
    <<3, 10, 1, 11, 10, 3, -1>>,
    <<0, 10, 1, 0, 8, 10, 8, 11, 10, -1>>,
    <<3, 9, 0, 3, 11, 9, 11, 10, 9, -1>>,
    <<9, 8, 10, 10, 8, 11, -1>>,
    <<4, 7, 8, -1>>,
    <<4, 3, 0, 7, 3, 4, -1>>,
    <<0, 1, 9, 8, 4, 7, -1>>,
    <<4, 1, 9, 4, 7, 1, 7, 3, 1, -1>>,
    <<1, 2, 10, 8, 4, 7, -1>>,
    <<3, 4, 7, 3, 0, 4, 1, 2, 10, -1>>,
    <<9, 2, 10, 9, 0, 2, 8, 4, 7, -1>>,
    <<2, 10, 9, 2, 9, 7, 2, 7, 3, 7, 9, 4, -1>>,
    <<8, 4, 7, 3, 11, 2, -1>>,
    <<11, 4, 7, 11, 2, 4, 2, 0, 4, -1>>,
    <<9, 0, 1, 8, 4, 7, 2, 3, 11, -1>>,
    <<4, 7, 11, 9, 4, 11, 9, 11, 2, 9, 2, 1, -1>>,
    <<3, 10, 1, 3, 11, 10, 7, 8, 4, -1>>,
    <<1, 11, 10, 1, 4, 11, 1, 0, 4, 7, 11, 4, -1>>,
    <<4, 7, 8, 9, 0, 11, 9, 11, 10, 11, 0, 3, -1>>,
    <<4, 7, 11, 4, 11, 9, 9, 11, 10, -1>>,
    <<9, 5, 4, -1>>,
    <<9, 5, 4, 0, 8, 3, -1>>,
    <<0, 5, 4, 1, 5, 0, -1>>,
    <<8, 5, 4, 8, 3, 5, 3, 1, 5, -1>>,
    <<1, 2, 10, 9, 5, 4, -1>>,
    <<3, 0, 8, 1, 2, 10, 4, 9, 5, -1>>,
    <<5, 2, 10, 5, 4, 2, 4, 0, 2, -1>>,
    <<2, 10, 5, 3, 2, 5, 3, 5, 4, 3, 4, 8, -1>>,
    <<9, 5, 4, 2, 3, 11, -1>>,
    <<0, 11, 2, 0, 8, 11, 4, 9, 5, -1>>,
    <<0, 5, 4, 0, 1, 5, 2, 3, 11, -1>>,
    <<2, 1, 5, 2, 5, 8, 2, 8, 11, 4, 8, 5, -1>>,
    <<10, 3, 11, 10, 1, 3, 9, 5, 4, -1>>,
    <<4, 9, 5, 0, 8, 1, 8, 10, 1, 8, 11, 10, -1>>,
    <<5, 4, 0, 5, 0, 11, 5, 11, 10, 11, 0, 3, -1>>,
    <<5, 4, 8, 5, 8, 10, 10, 8, 11, -1>>,
    <<9, 7, 8, 5, 7, 9, -1>>,
    <<9, 3, 0, 9, 5, 3, 5, 7, 3, -1>>,
    <<0, 7, 8, 0, 1, 7, 1, 5, 7, -1>>,
    <<1, 5, 3, 3, 5, 7, -1>>,
    <<9, 7, 8, 9, 5, 7, 10, 1, 2, -1>>,
    <<10, 1, 2, 9, 5, 0, 5, 3, 0, 5, 7, 3, -1>>,
    <<8, 0, 2, 8, 2, 5, 8, 5, 7, 10, 5, 2, -1>>,
    <<2, 10, 5, 2, 5, 3, 3, 5, 7, -1>>,
    <<7, 9, 5, 7, 8, 9, 3, 11, 2, -1>>,
    <<9, 5, 7, 9, 7, 2, 9, 2, 0, 2, 7, 11, -1>>,
    <<2, 3, 11, 0, 1, 8, 1, 7, 8, 1, 5, 7, -1>>,
    <<11, 2, 1, 11, 1, 7, 7, 1, 5, -1>>,
    <<9, 5, 8, 8, 5, 7, 10, 1, 3, 10, 3, 11, -1>>,
    <<5, 7, 0, 5, 0, 9, 7, 11, 0, 1, 0, 10, 11, 10, 0, -1>>,
    <<11, 10, 0, 11, 0, 3, 10, 5, 0, 8, 0, 7, 5, 7, 0, -1>>,
    <<11, 10, 5, 7, 11, 5, -1>>,
    <<10, 6, 5, -1>>,
    <<0, 8, 3, 5, 10, 6, -1>>,
    <<9, 0, 1, 5, 10, 6, -1>>,
    <<1, 8, 3, 1, 9, 8, 5, 10, 6, -1>>,
    <<1, 6, 5, 2, 6, 1, -1>>,
    <<1, 6, 5, 1, 2, 6, 3, 0, 8, -1>>,
    <<9, 6, 5, 9, 0, 6, 0, 2, 6, -1>>,
    <<5, 9, 8, 5, 8, 2, 5, 2, 6, 3, 2, 8, -1>>,
    <<2, 3, 11, 10, 6, 5, -1>>,
    <<11, 0, 8, 11, 2, 0, 10, 6, 5, -1>>,
    <<0, 1, 9, 2, 3, 11, 5, 10, 6, -1>>,
    <<5, 10, 6, 1, 9, 2, 9, 11, 2, 9, 8, 11, -1>>,
    <<6, 3, 11, 6, 5, 3, 5, 1, 3, -1>>,
    <<0, 8, 11, 0, 11, 5, 0, 5, 1, 5, 11, 6, -1>>,
    <<3, 11, 6, 0, 3, 6, 0, 6, 5, 0, 5, 9, -1>>,
    <<6, 5, 9, 6, 9, 11, 11, 9, 8, -1>>,
    <<5, 10, 6, 4, 7, 8, -1>>,
    <<4, 3, 0, 4, 7, 3, 6, 5, 10, -1>>,
    <<1, 9, 0, 5, 10, 6, 8, 4, 7, -1>>,
    <<10, 6, 5, 1, 9, 7, 1, 7, 3, 7, 9, 4, -1>>,
    <<6, 1, 2, 6, 5, 1, 4, 7, 8, -1>>,
    <<1, 2, 5, 5, 2, 6, 3, 0, 4, 3, 4, 7, -1>>,
    <<8, 4, 7, 9, 0, 5, 0, 6, 5, 0, 2, 6, -1>>,
    <<7, 3, 9, 7, 9, 4, 3, 2, 9, 5, 9, 6, 2, 6, 9, -1>>,
    <<3, 11, 2, 7, 8, 4, 10, 6, 5, -1>>,
    <<5, 10, 6, 4, 7, 2, 4, 2, 0, 2, 7, 11, -1>>,
    <<0, 1, 9, 4, 7, 8, 2, 3, 11, 5, 10, 6, -1>>,
    <<9, 2, 1, 9, 11, 2, 9, 4, 11, 7, 11, 4, 5, 10, 6, -1>>,
    <<8, 4, 7, 3, 11, 5, 3, 5, 1, 5, 11, 6, -1>>,
    <<5, 1, 11, 5, 11, 6, 1, 0, 11, 7, 11, 4, 0, 4, 11, -1>>,
    <<0, 5, 9, 0, 6, 5, 0, 3, 6, 11, 6, 3, 8, 4, 7, -1>>,
    <<6, 5, 9, 6, 9, 11, 4, 7, 9, 7, 11, 9, -1>>,
    <<10, 4, 9, 6, 4, 10, -1>>,
    <<4, 10, 6, 4, 9, 10, 0, 8, 3, -1>>,
    <<10, 0, 1, 10, 6, 0, 6, 4, 0, -1>>,
    <<8, 3, 1, 8, 1, 6, 8, 6, 4, 6, 1, 10, -1>>,
    <<1, 4, 9, 1, 2, 4, 2, 6, 4, -1>>,
    <<3, 0, 8, 1, 2, 9, 2, 4, 9, 2, 6, 4, -1>>,
    <<0, 2, 4, 4, 2, 6, -1>>,
    <<8, 3, 2, 8, 2, 4, 4, 2, 6, -1>>,
    <<10, 4, 9, 10, 6, 4, 11, 2, 3, -1>>,
    <<0, 8, 2, 2, 8, 11, 4, 9, 10, 4, 10, 6, -1>>,
    <<3, 11, 2, 0, 1, 6, 0, 6, 4, 6, 1, 10, -1>>,
    <<6, 4, 1, 6, 1, 10, 4, 8, 1, 2, 1, 11, 8, 11, 1, -1>>,
    <<9, 6, 4, 9, 3, 6, 9, 1, 3, 11, 6, 3, -1>>,
    <<8, 11, 1, 8, 1, 0, 11, 6, 1, 9, 1, 4, 6, 4, 1, -1>>,
    <<3, 11, 6, 3, 6, 0, 0, 6, 4, -1>>,
    <<6, 4, 8, 11, 6, 8, -1>>,
    <<7, 10, 6, 7, 8, 10, 8, 9, 10, -1>>,
    <<0, 7, 3, 0, 10, 7, 0, 9, 10, 6, 7, 10, -1>>,
    <<10, 6, 7, 1, 10, 7, 1, 7, 8, 1, 8, 0, -1>>,
    <<10, 6, 7, 10, 7, 1, 1, 7, 3, -1>>,
    <<1, 2, 6, 1, 6, 8, 1, 8, 9, 8, 6, 7, -1>>,
    <<2, 6, 9, 2, 9, 1, 6, 7, 9, 0, 9, 3, 7, 3, 9, -1>>,
    <<7, 8, 0, 7, 0, 6, 6, 0, 2, -1>>,
    <<7, 3, 2, 6, 7, 2, -1>>,
    <<2, 3, 11, 10, 6, 8, 10, 8, 9, 8, 6, 7, -1>>,
    <<2, 0, 7, 2, 7, 11, 0, 9, 7, 6, 7, 10, 9, 10, 7, -1>>,
    <<1, 8, 0, 1, 7, 8, 1, 10, 7, 6, 7, 10, 2, 3, 11, -1>>,
    <<11, 2, 1, 11, 1, 7, 10, 6, 1, 6, 7, 1, -1>>,
    <<8, 9, 6, 8, 6, 7, 9, 1, 6, 11, 6, 3, 1, 3, 6, -1>>,
    <<0, 9, 1, 11, 6, 7, -1>>,
    <<7, 8, 0, 7, 0, 6, 3, 11, 0, 11, 6, 0, -1>>,
    <<7, 11, 6, -1>>,
    <<7, 6, 11, -1>>,
    <<3, 0, 8, 11, 7, 6, -1>>,
    <<0, 1, 9, 11, 7, 6, -1>>,
    <<8, 1, 9, 8, 3, 1, 11, 7, 6, -1>>,
    <<10, 1, 2, 6, 11, 7, -1>>,
    <<1, 2, 10, 3, 0, 8, 6, 11, 7, -1>>,
    <<2, 9, 0, 2, 10, 9, 6, 11, 7, -1>>,
    <<6, 11, 7, 2, 10, 3, 10, 8, 3, 10, 9, 8, -1>>,
    <<7, 2, 3, 6, 2, 7, -1>>,
    <<7, 0, 8, 7, 6, 0, 6, 2, 0, -1>>,
    <<2, 7, 6, 2, 3, 7, 0, 1, 9, -1>>,
    <<1, 6, 2, 1, 8, 6, 1, 9, 8, 8, 7, 6, -1>>,
    <<10, 7, 6, 10, 1, 7, 1, 3, 7, -1>>,
    <<10, 7, 6, 1, 7, 10, 1, 8, 7, 1, 0, 8, -1>>,
    <<0, 3, 7, 0, 7, 10, 0, 10, 9, 6, 10, 7, -1>>,
    <<7, 6, 10, 7, 10, 8, 8, 10, 9, -1>>,
    <<6, 8, 4, 11, 8, 6, -1>>,
    <<3, 6, 11, 3, 0, 6, 0, 4, 6, -1>>,
    <<8, 6, 11, 8, 4, 6, 9, 0, 1, -1>>,
    <<9, 4, 6, 9, 6, 3, 9, 3, 1, 11, 3, 6, -1>>,
    <<6, 8, 4, 6, 11, 8, 2, 10, 1, -1>>,
    <<1, 2, 10, 3, 0, 11, 0, 6, 11, 0, 4, 6, -1>>,
    <<4, 11, 8, 4, 6, 11, 0, 2, 9, 2, 10, 9, -1>>,
    <<10, 9, 3, 10, 3, 2, 9, 4, 3, 11, 3, 6, 4, 6, 3, -1>>,
    <<8, 2, 3, 8, 4, 2, 4, 6, 2, -1>>,
    <<0, 4, 2, 4, 6, 2, -1>>,
    <<1, 9, 0, 2, 3, 4, 2, 4, 6, 4, 3, 8, -1>>,
    <<1, 9, 4, 1, 4, 2, 2, 4, 6, -1>>,
    <<8, 1, 3, 8, 6, 1, 8, 4, 6, 6, 10, 1, -1>>,
    <<10, 1, 0, 10, 0, 6, 6, 0, 4, -1>>,
    <<4, 6, 3, 4, 3, 8, 6, 10, 3, 0, 3, 9, 10, 9, 3, -1>>,
    <<10, 9, 4, 6, 10, 4, -1>>,
    <<4, 9, 5, 7, 6, 11, -1>>,
    <<0, 8, 3, 4, 9, 5, 11, 7, 6, -1>>,
    <<5, 0, 1, 5, 4, 0, 7, 6, 11, -1>>,
    <<11, 7, 6, 8, 3, 4, 3, 5, 4, 3, 1, 5, -1>>,
    <<9, 5, 4, 10, 1, 2, 7, 6, 11, -1>>,
    <<6, 11, 7, 1, 2, 10, 0, 8, 3, 4, 9, 5, -1>>,
    <<7, 6, 11, 5, 4, 10, 4, 2, 10, 4, 0, 2, -1>>,
    <<3, 4, 8, 3, 5, 4, 3, 2, 5, 10, 5, 2, 11, 7, 6, -1>>,
    <<7, 2, 3, 7, 6, 2, 5, 4, 9, -1>>,
    <<9, 5, 4, 0, 8, 6, 0, 6, 2, 6, 8, 7, -1>>,
    <<3, 6, 2, 3, 7, 6, 1, 5, 0, 5, 4, 0, -1>>,
    <<6, 2, 8, 6, 8, 7, 2, 1, 8, 4, 8, 5, 1, 5, 8, -1>>,
    <<9, 5, 4, 10, 1, 6, 1, 7, 6, 1, 3, 7, -1>>,
    <<1, 6, 10, 1, 7, 6, 1, 0, 7, 8, 7, 0, 9, 5, 4, -1>>,
    <<4, 0, 10, 4, 10, 5, 0, 3, 10, 6, 10, 7, 3, 7, 10, -1>>,
    <<7, 6, 10, 7, 10, 8, 5, 4, 10, 4, 8, 10, -1>>,
    <<6, 9, 5, 6, 11, 9, 11, 8, 9, -1>>,
    <<3, 6, 11, 0, 6, 3, 0, 5, 6, 0, 9, 5, -1>>,
    <<0, 11, 8, 0, 5, 11, 0, 1, 5, 5, 6, 11, -1>>,
    <<6, 11, 3, 6, 3, 5, 5, 3, 1, -1>>,
    <<1, 2, 10, 9, 5, 11, 9, 11, 8, 11, 5, 6, -1>>,
    <<0, 11, 3, 0, 6, 11, 0, 9, 6, 5, 6, 9, 1, 2, 10, -1>>,
    <<11, 8, 5, 11, 5, 6, 8, 0, 5, 10, 5, 2, 0, 2, 5, -1>>,
    <<6, 11, 3, 6, 3, 5, 2, 10, 3, 10, 5, 3, -1>>,
    <<5, 8, 9, 5, 2, 8, 5, 6, 2, 3, 8, 2, -1>>,
    <<9, 5, 6, 9, 6, 0, 0, 6, 2, -1>>,
    <<1, 5, 8, 1, 8, 0, 5, 6, 8, 3, 8, 2, 6, 2, 8, -1>>,
    <<1, 5, 6, 2, 1, 6, -1>>,
    <<1, 3, 6, 1, 6, 10, 3, 8, 6, 5, 6, 9, 8, 9, 6, -1>>,
    <<10, 1, 0, 10, 0, 6, 9, 5, 0, 5, 6, 0, -1>>,
    <<0, 3, 8, 5, 6, 10, -1>>,
    <<10, 5, 6, -1>>,
    <<11, 5, 10, 7, 5, 11, -1>>,
    <<11, 5, 10, 11, 7, 5, 8, 3, 0, -1>>,
    <<5, 11, 7, 5, 10, 11, 1, 9, 0, -1>>,
    <<10, 7, 5, 10, 11, 7, 9, 8, 1, 8, 3, 1, -1>>,
    <<11, 1, 2, 11, 7, 1, 7, 5, 1, -1>>,
    <<0, 8, 3, 1, 2, 7, 1, 7, 5, 7, 2, 11, -1>>,
    <<9, 7, 5, 9, 2, 7, 9, 0, 2, 2, 11, 7, -1>>,
    <<7, 5, 2, 7, 2, 11, 5, 9, 2, 3, 2, 8, 9, 8, 2, -1>>,
    <<2, 5, 10, 2, 3, 5, 3, 7, 5, -1>>,
    <<8, 2, 0, 8, 5, 2, 8, 7, 5, 10, 2, 5, -1>>,
    <<9, 0, 1, 5, 10, 3, 5, 3, 7, 3, 10, 2, -1>>,
    <<9, 8, 2, 9, 2, 1, 8, 7, 2, 10, 2, 5, 7, 5, 2, -1>>,
    <<1, 3, 5, 3, 7, 5, -1>>,
    <<0, 8, 7, 0, 7, 1, 1, 7, 5, -1>>,
    <<9, 0, 3, 9, 3, 5, 5, 3, 7, -1>>,
    <<9, 8, 7, 5, 9, 7, -1>>,
    <<5, 8, 4, 5, 10, 8, 10, 11, 8, -1>>,
    <<5, 0, 4, 5, 11, 0, 5, 10, 11, 11, 3, 0, -1>>,
    <<0, 1, 9, 8, 4, 10, 8, 10, 11, 10, 4, 5, -1>>,
    <<10, 11, 4, 10, 4, 5, 11, 3, 4, 9, 4, 1, 3, 1, 4, -1>>,
    <<2, 5, 1, 2, 8, 5, 2, 11, 8, 4, 5, 8, -1>>,
    <<0, 4, 11, 0, 11, 3, 4, 5, 11, 2, 11, 1, 5, 1, 11, -1>>,
    <<0, 2, 5, 0, 5, 9, 2, 11, 5, 4, 5, 8, 11, 8, 5, -1>>,
    <<9, 4, 5, 2, 11, 3, -1>>,
    <<2, 5, 10, 3, 5, 2, 3, 4, 5, 3, 8, 4, -1>>,
    <<5, 10, 2, 5, 2, 4, 4, 2, 0, -1>>,
    <<3, 10, 2, 3, 5, 10, 3, 8, 5, 4, 5, 8, 0, 1, 9, -1>>,
    <<5, 10, 2, 5, 2, 4, 1, 9, 2, 9, 4, 2, -1>>,
    <<8, 4, 5, 8, 5, 3, 3, 5, 1, -1>>,
    <<0, 4, 5, 1, 0, 5, -1>>,
    <<8, 4, 5, 8, 5, 3, 9, 0, 5, 0, 3, 5, -1>>,
    <<9, 4, 5, -1>>,
    <<4, 11, 7, 4, 9, 11, 9, 10, 11, -1>>,
    <<0, 8, 3, 4, 9, 7, 9, 11, 7, 9, 10, 11, -1>>,
    <<1, 10, 11, 1, 11, 4, 1, 4, 0, 7, 4, 11, -1>>,
    <<3, 1, 4, 3, 4, 8, 1, 10, 4, 7, 4, 11, 10, 11, 4, -1>>,
    <<4, 11, 7, 9, 11, 4, 9, 2, 11, 9, 1, 2, -1>>,
    <<9, 7, 4, 9, 11, 7, 9, 1, 11, 2, 11, 1, 0, 8, 3, -1>>,
    <<11, 7, 4, 11, 4, 2, 2, 4, 0, -1>>,
    <<11, 7, 4, 11, 4, 2, 8, 3, 4, 3, 2, 4, -1>>,
    <<2, 9, 10, 2, 7, 9, 2, 3, 7, 7, 4, 9, -1>>,
    <<9, 10, 7, 9, 7, 4, 10, 2, 7, 8, 7, 0, 2, 0, 7, -1>>,
    <<3, 7, 10, 3, 10, 2, 7, 4, 10, 1, 10, 0, 4, 0, 10, -1>>,
    <<1, 10, 2, 8, 7, 4, -1>>,
    <<4, 9, 1, 4, 1, 7, 7, 1, 3, -1>>,
    <<4, 9, 1, 4, 1, 7, 0, 8, 1, 8, 7, 1, -1>>,
    <<4, 0, 3, 7, 4, 3, -1>>,
    <<4, 8, 7, -1>>,
    <<9, 10, 8, 10, 11, 8, -1>>,
    <<3, 0, 9, 3, 9, 11, 11, 9, 10, -1>>,
    <<0, 1, 10, 0, 10, 8, 8, 10, 11, -1>>,
    <<3, 1, 10, 11, 3, 10, -1>>,
    <<1, 2, 11, 1, 11, 9, 9, 11, 8, -1>>,
    <<3, 0, 9, 3, 9, 11, 1, 2, 9, 2, 11, 9, -1>>,
    <<0, 2, 11, 8, 0, 11, -1>>,
    <<3, 2, 11, -1>>,
    <<2, 3, 8, 2, 8, 10, 10, 8, 9, -1>>,
    <<9, 10, 2, 0, 9, 2, -1>>,
    <<2, 3, 8, 2, 8, 10, 0, 1, 8, 1, 10, 8, -1>>,
    <<1, 10, 2, -1>>,
    <<1, 3, 8, 9, 1, 8, -1>>,
    <<0, 9, 1, -1>>,
    <<0, 3, 8, -1>>,
    <<-1>>
  >>

\* The two corners each of the 12 edges of a cell connects.
EDGE_CORNERS ==
  <<<<0, 1>>, <<1, 2>>, <<2, 3>>, <<3, 0>>, <<4, 5>>, <<5, 6>>, <<6, 7>>, <<7, 4>>, <<0, 4>>, <<1, 5>>, <<2, 6>>, <<3, 7>>>>

\* The offsets (x, y, z) of the 8 corners of a cell.
CORNER_OFFSETS ==
  <<<<0, 0, 0>>, <<1, 0, 0>>, <<1, 0, 1>>, <<0, 0, 1>>, <<0, 1, 0>>, <<1, 1, 0>>, <<1, 1, 1>>, <<0, 1, 1>>>>

METABALL_THRESHOLD == 1

\* The grid resolutions (cells per axis); the program's is METABALL_GRID_RES.
MaxRes == 3
Resolutions == 2..MaxRes

Ball(x, y, z, radius) == [x |-> x, y |-> y, z |-> z, radius |-> radius]

\* evaluateField, lines 770-776: one charge's r * r / (dist2 + 0.0001) at
\* point p, as the exact fraction 10000 r^2 / (10000 dist2 + 1).
BallTerm(b, p) ==
  LET dx == p[1] - b.x
      dy == p[2] - b.y
      dz == p[3] - b.z
      dist2 == dx * dx + dy * dy + dz * dz
  IN  [num |-> Big(10000 * b.radius * b.radius), den |-> Big(10000 * dist2 + 1)]

FracAdd(u, v) ==
  [num |-> BigAdd(BigMul(u.num, v.den), BigMul(v.num, u.den)),
   den |-> BigMul(u.den, v.den)]

RECURSIVE FieldSum(_, _, _)
FieldSum(bs, p, b) ==
  IF b > Len(bs) THEN [num |-> Big(0), den |-> Big(1)]
  ELSE IF b = Len(bs) THEN BallTerm(bs[b], p)
  ELSE FracAdd(BallTerm(bs[b], p), FieldSum(bs, p, b + 1))

\* The grid point with index (iz * n + iy) * n + ix.
GridPoint(i, n, gMin, cell) ==
  << gMin[1] + (i % n) * cell,
     gMin[2] + ((i \div n) % n) * cell,
     gMin[3] + (i \div (n * n)) * cell >>

\* evaluateField, lines 760-783: the field at the (res + 1)^3 grid points.
\* The Float32Array keeps a value below the threshold 1.0 below it unless it
\* is within 2^-25 of it, which no value of the grids here is.
evaluateField(bs, gMin, cell, r) ==
  LET n == r + 1
  IN  [i \in 0..(n * n * n - 1) |-> FieldSum(bs, GridPoint(i, n, gMin, cell), 1)]

\* cornerVals[c] >= threshold
AtLeast(v, threshold) == BigLe(BigMulSmall(v.den, threshold), v.num)

\* mcInterpolate, lines 788-798: the point between p1 and p2 where the field
\* crosses the threshold, kept as the corners and values it is computed from.
mcInterpolate(p1, p2, v1, v2, threshold) ==
  [p1 |-> p1, p2 |-> p2, v1 |-> v1, v2 |-> v2, threshold |-> threshold]

\* processCell, lines 807-817: the grid index of corner c of cell (ix, iy, iz).
CornerAt(ix, iy, iz, c, n) ==
  ((iz + CORNER_OFFSETS[c + 1][3]) * n + iy + CORNER_OFFSETS[c + 1][2]) * n
    + ix + CORNER_OFFSETS[c + 1][1]

RECURSIVE CubeBits(_, _, _, _, _, _, _)
CubeBits(f, ix, iy, iz, n, threshold, c) ==
  IF c = 8 THEN 0
  ELSE (IF AtLeast(f[CornerAt(ix, iy, iz, c, n)], threshold) THEN 2 ^ c ELSE 0)
       + CubeBits(f, ix, iy, iz, n, threshold, c + 1)
\* processCell, lines 804-817: the cube index of a cell.
CubeIndex(f, ix, iy, iz, n, threshold) == CubeBits(f, ix, iy, iz, n, threshold, 0)

\* edges & (1 << e)
EdgeCrossed(edges, e) == (edges \div (2 ^ e)) % 2 = 1

\* An edge key that keeps the order of the corners.
EdgeKeyOrdered(a, b, n) == a * n * n * n + b

\* processCell, line 832: the key of the grid edge between corners a and b.
EdgeKey(a, b, n) ==
  IF a < b THEN a * n * n * n + b ELSE b * n * n * n + a

\* A triangle list without its last triangle.
TriListShort(cubeIndex) ==
  LET l == TRI_TABLE[cubeIndex + 1]
  IN  IF Len(l) > 3 THEN SubSeq(l, 1, Len(l) - 4) \o <<-1>> ELSE l

\* processCell, line 845
TriList(cubeIndex) == TRI_TABLE[cubeIndex + 1]

\* processCell, lines 824-842: the loop over the 12 edges. st holds the
\* vertices, the edge map, the vertex of each edge of the cell, and for each
\* vertex the corners of the grid edge it was created for.
RECURSIVE EdgeLoop(_, _, _, _, _, _, _, _, _, _)
EdgeLoop(e, st, edges, f, ix, iy, iz, n, gMin, cell) ==
  IF e = 12 THEN st
  ELSE IF ~EdgeCrossed(edges, e)
  THEN EdgeLoop(e + 1, st, edges, f, ix, iy, iz, n, gMin, cell)
  ELSE
    LET c1 == EDGE_CORNERS[e + 1][1]
        c2 == EDGE_CORNERS[e + 1][2]
        a == CornerAt(ix, iy, iz, c1, n)
        b == CornerAt(ix, iy, iz, c2, n)
        key == EdgeKey(a, b, n)
        idx == Len(st.vertices)
        pos == mcInterpolate(GridPoint(a, n, gMin, cell), GridPoint(b, n, gMin, cell),
                             f[a], f[b], METABALL_THRESHOLD)
        nxt ==
          IF key \in DOMAIN st.map
          THEN [st EXCEPT !.edgeVerts[e] = st.map[key]]
          ELSE [vertices |-> Append(st.vertices, pos),
                map |-> [k \in DOMAIN st.map \cup {key} |->
                           IF k = key THEN idx ELSE st.map[k]],
                edgeVerts |-> [st.edgeVerts EXCEPT ![e] = idx],
                made |-> Append(st.made, <<a, b>>)]
    IN  EdgeLoop(e + 1, nxt, edges, f, ix, iy, iz, n, gMin, cell)

\* processCell, lines 845-849: the triangles of a cell.
RECURSIVE EmitTriangles(_, _, _)
EmitTriangles(triList, t, edgeVerts) ==
  IF t + 1 > Len(triList) \/ triList[t + 1] = -1 THEN <<>>
  ELSE << << edgeVerts[triList[t + 1]], edgeVerts[triList[t + 2]],
             edgeVerts[triList[t + 3]] >> >>
       \o EmitTriangles(triList, t + 3, edgeVerts)

\* The grid edges the triangles of a cell are meant to join: for each
\* triangle the corner pairs of its three cell edges.
RECURSIVE EmitEdges(_, _, _, _, _, _)
EmitEdges(triList, t, ix, iy, iz, n) ==
  IF t + 1 > Len(triList) \/ triList[t + 1] = -1 THEN <<>>
  ELSE << [k \in 1..3 |->
             { CornerAt(ix, iy, iz, EDGE_CORNERS[triList[t + k] + 1][1], n),
               CornerAt(ix, iy, iz, EDGE_CORNERS[triList[t + k] + 1][2], n) }] >>
       \o EmitEdges(triList, t + 3, ix, iy, iz, n)

Undefined == [k |-> "undefined"]

\* The ball lists generateMetaballMesh is called with: none, one, or two
\* balls. Coordinates and radii are multiples of 4 * res, which keeps the
\* padded box, its centre and the cell size whole numbers.
GenBallLists(r) ==
  LET u == 4 * r
  IN  { <<>>, << Ball(0, 0, 0, u) >> }
      \cup { << Ball(0, 0, 0, u), Ball(i * u, j * u, 0, u) >> : i \in 1..2, j \in 0..1 }

\* The single balls marchingCubes is called with directly on the grid with
\* gridMin = (0, 0, 0) and cellSize = 2: centres on the half-cell lattice
\* around the middle of the grid, radii in half cells up to half the grid
\* (a ball of that radius reaches the faces of the grid).
DirectCell == 2
GridBallLists(r) ==
  { << Ball(x, y, z, radius) >> :
      x \in (r - 1)..(r + 1), y \in (r - 1)..(r + 1), z \in (r - 1)..(r + 1),
      radius \in 1..r }

RenderModes == { "gpu-raytrace", "raytrace", "rasterize" }

MeshAtLoad ==
  /\ gridMin = <<0, 0, 0>>
  /\ cellSize = 0
  /\ field = <<>>
  /\ cellIdx = 0
  /\ mcVertices = <<>>
  /\ mcTriangles = <<>>
  /\ edgeVertexMap = <<>>
  /\ vertEdge = <<>>
  /\ triEdges = <<>>
  /\ mbMesh = Null
  /\ drawMode = "none"
  /\ frameErr = "none"
IdleMesh ==
  /\ mcCall = "none"
  /\ mcRes = 2
  /\ balls = <<>>
  /\ meshPc = "idle"
  /\ MeshAtLoad
InitMesh ==
  /\ mcCall \in { "generateMetaballMesh", "marchingCubes" }
  /\ mcRes \in Resolutions
  /\ balls \in IF mcCall = "generateMetaballMesh"
               THEN GenBallLists(mcRes) ELSE GridBallLists(mcRes)
  /\ meshPc = "start"
  /\ MeshAtLoad

UnchangedByMesh ==
  UNCHANGED <<bvhVars, traceVars, shadeVars, renderVars, injectVars, sceneVars, seedVars,
              moreVars>>

RECURSIVE SeqMin(_, _)
SeqMin(s, i) ==
  IF i = Len(s) THEN s[i]
  ELSE LET m == SeqMin(s, i + 1) IN IF s[i] < m THEN s[i] ELSE m
RECURSIVE SeqMax(_, _)
SeqMax(s, i) ==
  IF i = Len(s) THEN s[i]
  ELSE LET m == SeqMax(s, i + 1) IN IF s[i] > m THEN s[i] ELSE m

\* generateMetaballMesh, lines 965-984: the cubic sampling grid around the
\* balls, padded by 1.5 radii.
GridOf(bs, r) ==
  LET pad(b) == (b.radius * 3) \div 2
      minX == SeqMin([i \in 1..Len(bs) |-> bs[i].x - pad(bs[i])], 1)
      minY == SeqMin([i \in 1..Len(bs) |-> bs[i].y - pad(bs[i])], 1)
      minZ == SeqMin([i \in 1..Len(bs) |-> bs[i].z - pad(bs[i])], 1)
      maxX == SeqMax([i \in 1..Len(bs) |-> bs[i].x + pad(bs[i])], 1)
      maxY == SeqMax([i \in 1..Len(bs) |-> bs[i].y + pad(bs[i])], 1)
      maxZ == SeqMax([i \in 1..Len(bs) |-> bs[i].z + pad(bs[i])], 1)
      span == SeqMax(<<maxX - minX, maxY - minY, maxZ - minZ>>, 1)
      half == span \div 2
  IN  [gridMin |-> << (minX + maxX) \div 2 - half, (minY + maxY) \div 2 - half,
                      (minZ + maxZ) \div 2 - half >>,
       cellSize |-> span \div r]

\* generateMetaballMesh, lines 961-987: the early return for no balls, or
\* the grid and the field of the balls.
GenerateMetaballMesh ==
  /\ meshPc = "start"
  /\ mcCall = "generateMetaballMesh"
  /\ IF Len(balls) = 0
     THEN /\ mbMesh' = [vertices |-> << <<0, 0, 0>> >>, triangles |-> <<>>]
          /\ meshPc' = "returned"
          /\ UNCHANGED <<gridMin, cellSize, field>>
     ELSE /\ gridMin' = GridOf(balls, mcRes).gridMin
          /\ cellSize' = GridOf(balls, mcRes).cellSize
          /\ field' = evaluateField(balls, gridMin', cellSize', mcRes)
          /\ meshPc' = "cells"
          /\ UNCHANGED mbMesh
  /\ UNCHANGED <<mcCall, mcRes, balls, cellIdx, mcVertices, mcTriangles,
                 edgeVertexMap, vertEdge, triEdges, drawMode, frameErr>>
  /\ UnchangedByMesh

\* marchingCubes called on the field of one ball, lines 853-857.
MarchingCubes ==
  /\ meshPc = "start"
  /\ mcCall = "marchingCubes"
  /\ gridMin' = <<0, 0, 0>>
  /\ cellSize' = DirectCell
  /\ field' = evaluateField(balls, gridMin', cellSize', mcRes)
  /\ meshPc' = "cells"
  /\ UNCHANGED <<mcCall, mcRes, balls, cellIdx, mcVertices, mcTriangles,
                 edgeVertexMap, vertEdge, triEdges, mbMesh, drawMode, frameErr>>
  /\ UnchangedByMesh

\* marchingCubes, lines 859-862, and processCell, lines 801-850: one cell,
\* in the order of the loops (ix fastest).
ProcessCell ==
  /\ meshPc = "cells"
  /\ cellIdx < mcRes * mcRes * mcRes
  /\ LET n == mcRes + 1
         ix == cellIdx % mcRes
         iy == (cellIdx \div mcRes) % mcRes
         iz == cellIdx \div (mcRes * mcRes)
         cubeIndex == CubeIndex(field, ix, iy, iz, n, METABALL_THRESHOLD)
         edges == EDGE_TABLE[cubeIndex + 1]
         st == EdgeLoop(0, [vertices |-> mcVertices, map |-> edgeVertexMap,
                            edgeVerts |-> [e \in 0..11 |-> Undefined],
                            made |-> vertEdge],
                        edges, field, ix, iy, iz, n, gridMin, cellSize)
     IN  IF edges = 0
         THEN UNCHANGED <<mcVertices, mcTriangles, edgeVertexMap, vertEdge, triEdges>>
         ELSE /\ mcVertices' = st.vertices
              /\ edgeVertexMap' = st.map
              /\ vertEdge' = st.made
              /\ mcTriangles' = mcTriangles
                   \o EmitTriangles(TriList(cubeIndex), 0, st.edgeVerts)
              /\ triEdges' = triEdges
                   \o EmitEdges(TRI_TABLE[cubeIndex + 1], 0, ix, iy, iz, n)
  /\ cellIdx' = cellIdx + 1
  /\ meshPc' = IF cellIdx' = mcRes * mcRes * mcRes THEN "marched" ELSE "cells"
  /\ UNCHANGED <<mcCall, mcRes, balls, gridMin, cellSize, field, mbMesh,
                 drawMode, frameErr>>
  /\ UnchangedByMesh

\* computeMetaballNormals, lines 947-956: one unit normal per vertex, kept
\* as the vertex it is the field gradient of.
computeMetaballNormals(vs, bs) == [i \in 1..Len(vs) |-> [gradientAt |-> vs[i]]]

\* generateMetaballMesh, lines 989-991: smoothMesh moves the vertices (it
\* adds and removes none and leaves the triangles alone), then the normals
\* are added and the mesh is returned.
ReturnMesh ==
  /\ meshPc = "marched"
  /\ mcCall = "generateMetaballMesh"
  /\ mbMesh' = [vertices |-> mcVertices, triangles |-> mcTriangles,
                normals |-> computeMetaballNormals(mcVertices, balls)]
  /\ meshPc' = "returned"
  /\ UNCHANGED <<mcCall, mcRes, balls, gridMin, cellSize, field, cellIdx,
                 mcVertices, mcTriangles, edgeVertexMap, vertEdge, triEdges,
                 drawMode, frameErr>>
  /\ UnchangedByMesh

\* draw, line 68: mb.vertexNormals = mbMesh.normals
JsArray(items) == [k |-> "array", items |-> items]
VertexNormalsOf(m) == IF "normals" \in DOMAIN m THEN JsArray(m.normals) ELSE Undefined

\* transformMesh, lines 30-32: vertexNormals ? vertexNormals.map(...) : null
\* (an empty array counts as given).
WorldNormals(ns) == IF ns \in {Undefined, Null} THEN Null ELSE ns

\* packVec3Array, line 1195: items.length of null throws.
packVec3ArrayThrows(items) == items = Null

\* drawObject, lines 82-108: without face normals every triangle reads
\* vertexNormals[tri[k]].
drawObjectThrows(tris, vertexNormals, faceNormals) ==
  /\ Len(tris) > 0
  /\ faceNormals \in {Undefined, Null}
  /\ vertexNormals \in {Undefined, Null}

\* a || b
OrElse(a, b) == IF a \in {Undefined, Null} THEN b ELSE a

\* draw, lines 59-96, for the metaball object (faceNormals: null): the mesh
\* is stored into sceneObjects[0] and handed to the renderer of the mode.
\* gpu-raytrace: buildSceneFromObjects, then uploadSceneData packs
\* worldVertexNormals || worldFaceNormals (line 1235).
\* raytrace: buildSceneFromObjects, then rays; a normal is read only at a hit.
\* rasterize: drawObject.
Draw ==
  /\ meshPc = "returned"
  /\ \E mode \in RenderModes :
       /\ drawMode' = mode
       /\ LET vertexNormals == VertexNormalsOf(mbMesh)
              worldVertexNormals == WorldNormals(vertexNormals)
              worldFaceNormals == WorldNormals(Null)
          IN  frameErr' =
                CASE mode = "gpu-raytrace" ->
                       IF packVec3ArrayThrows(OrElse(worldVertexNormals, worldFaceNormals))
                       THEN "TypeError" ELSE "none"
                  [] mode = "raytrace" -> "none"
                  [] mode = "rasterize" ->
                       IF drawObjectThrows(mbMesh.triangles, vertexNormals, Undefined)
                       THEN "TypeError" ELSE "none"
  /\ meshPc' = "drawn"
  /\ UNCHANGED <<mcCall, mcRes, balls, gridMin, cellSize, field, cellIdx,
                 mcVertices, mcTriangles, edgeVertexMap, vertEdge, triEdges, mbMesh>>
  /\ UnchangedByMesh

NextMesh ==
  \/ GenerateMetaballMesh
  \/ MarchingCubes
  \/ ProcessCell
  \/ ReturnMesh
  \/ Draw

----------------------------------------------------------------------------
(* raytrace.js, lines 80-128: sceneIntersect, the closest hit of a ray *)

\* The distances at which a ray meets a surface are 1..FarthestT; 0 stands
\* for no hit, and Infinity is beyond them all.
FarthestT == 3
InfinityT == FarthestT + 1

\* An instance of the scene as the ray sees it: the distance of the ray's
\* closest hit on its triangles (0: it meets none), the colour of the
\* triangle hit, and the instance's reflectivity.
Instance(t, color, reflectivity) ==
  [t |-> t, color |-> color, reflectivity |-> reflectivity]
\* Scenes of 0..MaxObjs instances, each with a colour and a reflectivity of
\* its own.
CiScenes ==
  UNION { { [i \in 1..n |-> Instance(ts[i], <<60 * i, 30, 30>>, Fin(i % 2, 2))] :
              ts \in [1..n -> 0..FarthestT] } : n \in 0..MaxObjs }

\* An intersectObject that does not look at maxT.
intersectObjectAnyT(obj, limitT) ==
  IF obj.t > 0 THEN [t |-> obj.t, color |-> obj.color] ELSE Null

\* intersectObject, lines 80-82: bvhClosestHit(..., maxT), which starts from
\* bestT = maxT and keeps a triangle's hit only where hit.t < bestT, so the
\* instance's closest hit is returned if it is below maxT, and null if not.
intersectObject(obj, limitT) ==
  IF obj.t > 0 /\ obj.t < limitT THEN [t |-> obj.t, color |-> obj.color] ELSE Null

\* envIntersect (environment.js, lines 38-53): the floor, reflectivity 0.
envIntersect(e) ==
  IF e = 0 THEN Null ELSE [t |-> e, color |-> <<200, 200, 200>>, reflectivity |-> I(0)]

\* sceneIntersect, lines 96-112: the loop over the instances, from the
\* state st = [closestT, result] after the instances before oi.  Instance
\* oi is objs[oi + 1] here, and skipObj counts from 0 as in the source.
RECURSIVE TestMeshObjects(_, _, _, _)
TestMeshObjects(objs, skip, oi, st) ==
  IF oi >= Len(objs) THEN st
  ELSE IF oi = skip THEN TestMeshObjects(objs, skip, oi + 1, st)
  ELSE LET obj == objs[oi + 1]
           objHit == intersectObject(obj, st.closestT)
       IN IF objHit = Null THEN TestMeshObjects(objs, skip, oi + 1, st)
          ELSE TestMeshObjects(objs, skip, oi + 1,
                 [closestT |-> objHit.t,
                  result |-> [t |-> objHit.t, color |-> objHit.color,
                              objIdx |-> oi, reflectivity |-> obj.reflectivity]])

\* sceneIntersect, lines 90-128.
closestIntersect(objs, e, skip) ==
  LET st == TestMeshObjects(objs, skip, 0, [closestT |-> InfinityT, result |-> Null])
      eh == envIntersect(e)
  IN IF skip # ENV_OBJ_IDX /\ eh # Null /\ eh.t < st.closestT
     THEN [t |-> eh.t, color |-> eh.color, objIdx |-> ENV_OBJ_IDX,
           reflectivity |-> eh.reflectivity]
     ELSE st.result

ClosestAtLoad == ciResult = Null
IdleClosest ==
  /\ ciScene = <<>> /\ ciEnv = 0 /\ ciSkip = -1 /\ ciPc = "idle" /\ ClosestAtLoad
\* skipObj is -1 for a primary ray, and the objIdx of a hit after that.
InitClosest ==
  /\ ciScene \in CiScenes
  /\ ciEnv \in 0..FarthestT
  /\ ciSkip \in {-1, ENV_OBJ_IDX} \cup (0..(Len(ciScene) - 1))
  /\ ciPc = "start"
  /\ ClosestAtLoad

\* sceneIntersect is called and returns.
SceneIntersect ==
  /\ ciPc = "start"
  /\ ciResult' = closestIntersect(ciScene, ciEnv, ciSkip)
  /\ ciPc' = "returned"
  /\ UNCHANGED <<ciScene, ciEnv, ciSkip>>
  /\ UNCHANGED <<bvhVars, traceVars, shadeVars, renderVars, injectVars>>
  /\ UNCHANGED <<sceneVars, seedVars, meshVars, smoothVars>>

NextClosest == SceneIntersect

----------------------------------------------------------------------------
(* shader-source.js, lines 892-938: smoothMesh *)

\* A vertex position, its coordinates as rationals.
Point(x, y, z) == <<I(x), I(y), I(z)>>

\* smoothMesh, lines 894-901: neighborSets.
neighborSets(vs, tris) ==
  [i \in DOMAIN vs |->
     { j \in DOMAIN vs :
         j # i /\ \E t \in 1..Len(tris) :
                    {i, j} \subseteq {tris[t][1], tris[t][2], tris[t][3]} }]

\* ax, ay, az of lines 908-912: the sum of coordinate c over the
\* neighbours.
RECURSIVE SumOf(_, _, _)
SumOf(vs, S, c) ==
  IF S = {} THEN I(0)
  ELSE LET ni == SetMin(S)
       IN XAdd(vs[ni][c], SumOf(vs, S \ {ni}, c))

\* Lines 915-919: vertices[i][c] * 0.5 + (a / n) * 0.5, the neighbours'
\* positions read from `from'.
Blended(vs, from, nb, i) ==
  [c \in 1..3 |->
     XAdd(XMul(vs[i][c], Fin(1, 2)),
          XMul(XMul(SumOf(from, nb[i], c), XInv(Cardinality(nb[i]))), Fin(1, 2)))]

\* smoothMesh, lines 904-921: the relaxation loop from vertex i on.  The
\* new position is stored in vertices before the next vertex is visited.
RECURSIVE RelaxFrom(_, _, _)
RelaxFrom(i, vs, nb) ==
  IF i \notin DOMAIN vs THEN vs
  ELSE IF nb[i] = {} THEN RelaxFrom(i + 1, vs, nb)
  ELSE RelaxFrom(i + 1, [vs EXCEPT ![i] = Blended(vs, vs, nb, i)], nb)

\* The Newton step of lines 924-936 from p, kept as the point it starts at.
Projected(q) == [newtonStepFrom |-> q]

\* The meshes smoothMesh is called with: a triangle (of the first or of the
\* last three vertices), or two triangles that share an edge (in two
\* numberings), over three or four vertices, each at one of three places;
\* a vertex may be used by no triangle.
SmoothPlaces == { Point(0, 0, 0), Point(6, 0, 0), Point(0, 6, 0) }
SmoothTriangles ==
  { << <<0, 1, 2>> >>,
    << <<0, 1, 2>>, <<0, 2, 3>> >>,
    << <<1, 2, 3>>, <<0, 1, 3>> >>,
    << <<1, 2, 3>> >> }
VerticesUsed(tris) ==
  UNION { {tris[t][1], tris[t][2], tris[t][3]} : t \in 1..Len(tris) }
SmoothMeshes ==
  { [vertices |-> vs, triangles |-> tris] :
      tris \in SmoothTriangles,
      vs \in UNION { [0..(n - 1) -> SmoothPlaces] : n \in 3..4 } }

SmoothAtLoad == smStart = EmptyArr
IdleSmooth ==
  /\ smVertices = EmptyArr /\ smTriangles = <<>> /\ smPc = "idle" /\ SmoothAtLoad
InitSmooth ==
  /\ \E m \in SmoothMeshes :
       /\ VerticesUsed(m.triangles) \subseteq DOMAIN m.vertices
       /\ smVertices = m.vertices
       /\ smTriangles = m.triangles
  /\ smPc = "start"
  /\ SmoothAtLoad

UnchangedBySmooth ==
  /\ UNCHANGED <<bvhVars, traceVars, shadeVars, renderVars, injectVars>>
  /\ UNCHANGED <<sceneVars, seedVars, meshVars, closestVars>>

\* smoothMesh, lines 894-921: the adjacency and the relaxation loop of the
\* first iteration.
Relax ==
  /\ smPc = "start"
  /\ smStart' = smVertices
  /\ smVertices' = RelaxFrom(0, smVertices, neighborSets(smVertices, smTriangles))
  /\ smPc' = "relaxed"
  /\ UNCHANGED smTriangles
  /\ UnchangedBySmooth

\* smoothMesh, lines 923-936: the projection loop of that iteration.
Project ==
  /\ smPc = "relaxed"
  /\ smVertices' = [i \in DOMAIN smVertices |-> Projected(smVertices[i])]
  /\ smPc' = "projected"
  /\ UNCHANGED <<smTriangles, smStart>>
  /\ UnchangedBySmooth

NextSmooth == Relax \/ Project

IdleMore == IdleClosest /\ IdleSmooth
IdleOther == IdleScene /\ IdleSeed /\ IdleMesh /\ IdleMore

----------------------------------------------------------------------------
(* Specifications *)

BvhAtLoad ==
  /\ triInfos = EmptyArr
  /\ nodes = EmptyArr
  /\ callStack = <<>>
  /\ ret = NoRet
  /\ pc = "start"
  /\ ray = Null
  /\ maxT = Infinity
  /\ maxDist = Infinity
  /\ bvhStack = <<>>
  /\ stackPtr = 0
  /\ best = Null
  /\ closestRes = Null
  /\ anyRes = FALSE
  /\ nodeReads = 0
  /\ err = FALSE
  /\ bvhData = EmptyArr
  /\ bvhOff = 0
  /\ gpuStack = <<>>
  /\ gpuSp = 0
  /\ gpuIter = 0
  /\ gpuBest = Null

InitBVH == triangles \in Meshes /\ BvhAtLoad
IdleBVH == triangles = EmptyArr /\ BvhAtLoad

NextBuild ==
  \/ BuildBVH
  \/ BuildNode
  \/ BuildNodeRight
  \/ BuildNodeInner
  \/ BuildBVHReturn
  \/ BvhClosestHit
  \/ BvhTraverse
  \/ BvhClosestHitReturn
  \/ BvhAnyHit
  \/ BvhAnyHitReturn

\* The BVH of a mesh is built and queried.
Init == InitBVH /\ IdleTrace /\ IdleShade /\ IdleRender /\ IdleInject /\ IdleOther
Spec == Init /\ [][NextBuild]_vars

\* The BVH of a mesh is built, queried, packed into the BVH texture and
\* walked by the shader.
NextGpuBvh ==
  \/ NextBuild
  \/ PackBVHNodes
  \/ GpuBvhIntersect
  \/ GpuBvhAnyHit
  \/ GpuBvhIter
  \/ GpuBvhReturn

InitGpuBvh == triangles \in GpuMeshes /\ BvhAtLoad

\* A scene of an instance without triangles and a mesh is uploaded, and
\* the shader tests rays against the instance without triangles.
NextEmptyBvh ==
  \/ BuildBVH
  \/ BuildNode
  \/ BuildNodeRight
  \/ BuildNodeInner
  \/ BuildBVHReturn
  \/ PackBVHNodes
  \/ GpuSceneIntersectEmpty
  \/ GpuAnyHitEmpty
  \/ GpuBvhIter
  \/ GpuBvhReturn
InitGpuBvhSpec == InitGpuBvh /\ IdleTrace /\ IdleShade /\ IdleRender /\ IdleInject /\ IdleOther
SpecGpuBvh == InitGpuBvhSpec /\ [][NextGpuBvh]_vars

SpecEmptyBvh == InitGpuBvhSpec /\ [][NextEmptyBvh]_vars

\* A mesh is built, asked about by bvhClosestHit, uploaded, and asked about
\* by the shader's bvhIntersect with the same ray.
NextBothWalks ==
  \/ BuildBVH
  \/ BuildNode
  \/ BuildNodeRight
  \/ BuildNodeInner
  \/ BuildBVHReturn
  \/ BvhClosestHit
  \/ BvhTraverse
  \/ BvhClosestHitReturn
  \/ PackBVHNodesAfterQuery
  \/ GpuBvhIntersectSameRay
  \/ GpuBvhIter
  \/ GpuBvhReturn
SpecBothWalks == InitGpuBvhSpec /\ [][NextBothWalks]_vars

\* A nodes array made by hand, which bvhTraverse and the shader take like
\* any other (buildBVH returns none this deep, see C20): a spine of d inner
\* nodes.  Inner node k is nodes[2k]; its child on `side' is the next inner
\* node (the last leaf below the last inner node), its other child the leaf
\* nodes[2k + 1].  The last leaf holds the triangle at z = 5, every other
\* leaf one at z = 10.
ChainBVH(d, side) ==
  [i \in 0..(2 * d) |->
     IF i % 2 = 0 /\ i < 2 * d
     THEN InnerNode(<<-1, -1, 5>>, <<3, 3, 10>>,
                    IF side = "left" THEN i + 2 ELSE i + 1,
                    IF side = "left" THEN i + 1 ELSE i + 2)
     ELSE IF i = 2 * d THEN LeafNode(<<-1, -1, 5>>, <<3, 3, 5>>, d)
     ELSE LeafNode(<<-1, -1, 10>>, <<3, 3, 10>>, i \div 2)]
ChainTriangles(d) == [i \in 0..d |-> IF i = d THEN <<0, 1, 2>> ELSE <<3, 4, 5>>]

\* Spines that just fill and that overflow the shader's and the CPU's stack.
DeepDepths == { BVH_MAX_STACK - 1, BVH_MAX_STACK, BvhStackSize - 1, BvhStackSize }

InitDeep ==
  /\ \E d \in DeepDepths, side \in {"left", "right"} :
       /\ triangles = ChainTriangles(d)
       /\ nodes = ChainBVH(d, side)
  /\ triInfos = EmptyArr
  /\ callStack = <<>>
  /\ ret = NoRet
  /\ pc = "built"
  /\ ray = Null
  /\ maxT = Infinity
  /\ maxDist = Infinity
  /\ bvhStack = <<>>
  /\ stackPtr = 0
  /\ best = Null
  /\ closestRes = Null
  /\ anyRes = FALSE
  /\ nodeReads = 0
  /\ err = FALSE
  /\ bvhData = EmptyArr
  /\ bvhOff = 0
  /\ gpuStack = <<>>
  /\ gpuSp = 0
  /\ gpuIter = 0
  /\ gpuBest = Null

NextDeep ==
  \/ BvhClosestHit
  \/ BvhTraverse
  \/ BvhClosestHitReturn
  \/ BvhAnyHit
  \/ BvhAnyHitReturn
  \/ PackBVHNodes
  \/ GpuBvhIntersect
  \/ GpuBvhAnyHit
  \/ GpuBvhIter
  \/ GpuBvhReturn

\* Both traversals walk a BVH that is deeper than their stacks.
InitDeepSpec == InitDeep /\ IdleTrace /\ IdleShade /\ IdleRender /\ IdleInject /\ IdleOther
SpecDeep == InitDeepSpec /\ [][NextDeep]_vars

\* One pixel's rays are cast into a scene of instances and the environment.
InitSceneSpec ==
  /\ IdleBVH /\ IdleTrace /\ IdleShade /\ IdleRender /\ IdleInject
  /\ InitScene /\ IdleSeed /\ IdleMesh /\ IdleMore
SpecScene == InitSceneSpec /\ [][NextScene]_vars

\* Two sub-samples of a frame are seeded by both backends.
InitSeedSpec ==
  /\ IdleBVH /\ IdleTrace /\ IdleShade /\ IdleRender /\ IdleInject
  /\ IdleScene /\ InitSeed /\ IdleMesh /\ IdleMore

\* A metaball mesh is generated and drawn, or marchingCubes is called on the
\* field of one ball.
InitMeshSpec ==
  /\ IdleBVH /\ IdleTrace /\ IdleShade /\ IdleRender /\ IdleInject
  /\ IdleScene /\ IdleSeed /\ InitMesh /\ IdleMore
SpecMesh == InitMeshSpec /\ [][NextMesh]_vars
SpecSeed == InitSeedSpec /\ [][NextSeedSpec]_vars

\* A path of reflecting hits is traced by the sequential backend.  The
\* call runs to its end, JavaScript running a function to completion: the
\* calls and returns are weakly fair, and so are the steps that shade a
\* hit, whose ENABLED is written out (each of them is enabled exactly when
\* its guard on the running activation holds).
InitBounceSpec ==
  /\ IdleBVH /\ IdleRender /\ IdleInject /\ IdleOther /\ InitBounce
TraceRayCalls == TraceRayCPU \/ TraceRayEnter \/ TraceRayCPUReturn
TraceRayShades == TraceRayShadow \/ TraceRayAo \/ TraceRayShade \/ TraceRayBlend
ShadingEnabled ==
  /\ tstack # <<>>
  /\ \/ TraceTop.phase \in {"shadow", "ao", "shade"}
     \/ TraceTop.phase = "reflect" /\ tret # NoColour
SpecBounce ==
  /\ InitBounceSpec /\ [][NextBounce]_vars
  /\ WF_vars(TraceRayCalls)
  /\ ([]<>(~ShadingEnabled) \/ []<><<TraceRayShades>>_vars)

\* sceneIntersect is called for a ray, a scene and a skipObj.
InitClosestSpec ==
  /\ IdleBVH /\ IdleTrace /\ IdleShade /\ IdleRender /\ IdleInject
  /\ IdleScene /\ IdleSeed /\ IdleMesh /\ InitClosest /\ IdleSmooth
SpecClosest == InitClosestSpec /\ [][NextClosest]_vars

\* smoothMesh is called with a mesh and one iteration.
InitSmoothSpec ==
  /\ IdleBVH /\ IdleTrace /\ IdleShade /\ IdleRender /\ IdleInject
  /\ IdleScene /\ IdleSeed /\ IdleMesh /\ IdleClosest /\ InitSmooth
SpecSmooth == InitSmoothSpec /\ [][NextSmooth]_vars

\* One path is traced by both backends.
InitShadeSpec == IdleBVH /\ InitShade /\ IdleRender /\ IdleInject /\ IdleOther
SpecShade == InitShadeSpec /\ [][NextShade]_vars

\* mainLoop renders MaxFrames frames in raytrace mode.
InitRenderSpec == IdleBVH /\ IdleTrace /\ IdleShade /\ InitRender /\ IdleInject /\ IdleOther
SpecRender == InitRenderSpec /\ [][NextRender]_vars

\* initGPU runs in gpu-raytrace mode.
InitInjectSpec == IdleBVH /\ IdleTrace /\ IdleShade /\ InitRender /\ InitInject /\ IdleOther
SpecInject == InitInjectSpec /\ [][NextInject]_vars

----------------------------------------------------------------------------
(* Properties of the BVH (specification Spec) *)

\* buildBVH has returned.
Built == pc \notin {"start", "building"}

IsLeaf(n) == n.triIdx >= 0
LeafSlots == { k \in DOMAIN nodes : nodes[k] # Null /\ IsLeaf(nodes[k]) }

\* The triangle indices in the leaves at or below node k.
RECURSIVE LeafTris(_)
LeafTris(k) ==
  IF IsLeaf(nodes[k]) THEN {nodes[k].triIdx}
  ELSE LeafTris(nodes[k].left) \cup LeafTris(nodes[k].right)

\* The component-wise min / max of the vertices of a set of triangles.
TightBox(tset) ==
  LET vs == { worldVerts[triangles[i][c]] : i \in tset, c \in 1..3 }
  IN [bmin |-> << SetMin({v[1] : v \in vs}), SetMin({v[2] : v \in vs}),
                  SetMin({v[3] : v \in vs}) >>,
      bmax |-> << SetMax({v[1] : v \in vs}), SetMax({v[2] : v \in vs}),
                  SetMax({v[3] : v \in vs}) >>]

BoxInside(c, n) ==
  \A a \in 1..3 : n.bmin[a] <= c.bmin[a] /\ c.bmax[a] <= n.bmax[a]

\* C1: once buildBVH has returned for a non-empty triangle list, every
\* input triangle index 0..n-1 is the triIdx of exactly one leaf, and no
\* leaf carries anything else.
C1_LeavesCarryEachTriangleOnce ==
  (Built /\ ALen(triangles) > 0) =>
    /\ \A i \in DOMAIN triangles :
         Cardinality({ k \in LeafSlots : nodes[k].triIdx = i }) = 1
    /\ \A k \in LeafSlots : nodes[k].triIdx \in DOMAIN triangles

\* A built BVH over MaxTris triangles whose sort changed the input order.
C1_Witness ==
  /\ Built
  /\ ALen(triangles) = MaxTris
  /\ \E i \in DOMAIN triInfos : triInfos[i].idx # i

\* C2: in a returned BVH both children's boxes lie inside the box of their
\* inner node, and every node's box is exactly the component-wise min / max
\* of the vertices of the triangles in the leaves below it.
C2_BoxesNestedAndTight ==
  (Built /\ ALen(triangles) > 0) =>
    \A k \in DOMAIN nodes :
      /\ ~IsLeaf(nodes[k]) =>
           /\ BoxInside(nodes[nodes[k].left], nodes[k])
           /\ BoxInside(nodes[nodes[k].right], nodes[k])
      /\ LET tb == TightBox(LeafTris(k))
         IN nodes[k].bmin = tb.bmin /\ nodes[k].bmax = tb.bmax

\* A built BVH with an inner node strictly larger than one of its children.
C2_Witness ==
  /\ Built
  /\ \E k \in DOMAIN nodes :
       /\ ~IsLeaf(nodes[k])
       /\ nodes[nodes[k].left].bmax # nodes[k].bmax
       /\ nodes[nodes[k].right].bmin # nodes[k].bmin

\* C3: in a returned BVH no slot is null, and every node is either a leaf
\* (triIdx >= 0, left = right = -1) or an inner node (triIdx = -1, left and
\* right indices of the array), never both and never neither.
C3_LeafXorInner ==
  Built =>
    \A k \in DOMAIN nodes :
      /\ nodes[k] # Null
      /\ LET n == nodes[k]
             leaf == n.triIdx >= 0 /\ n.left = -1 /\ n.right = -1
             inner == n.triIdx = -1 /\ n.left \in DOMAIN nodes
                      /\ n.right \in DOMAIN nodes
         IN (leaf \/ inner) /\ ~(leaf /\ inner)

\* A returned BVH with a leaf and an inner node.
C3_Witness ==
  /\ Built
  /\ \E k \in DOMAIN nodes : nodes[k].triIdx >= 0
  /\ \E k \in DOMAIN nodes : nodes[k].triIdx = -1

\* rayTriangleIntersect on triangle i of the mesh.
TriHit(r, i) ==
  rayTriangleIntersect(r.o, r.d, worldVerts[triangles[i][1]],
                       worldVerts[triangles[i][2]], worldVerts[triangles[i][3]])

\* The triangles rayTriangleIntersect reports as hit, tested one by one.
HitTris(r) == { i \in DOMAIN triangles : TriHit(r, i) # Null }

IsNearest(r, t) ==
  /\ \E i \in HitTris(r) : XEq(TriHit(r, i).t, t)
  /\ \A i \in HitTris(r) : XLe(t, TriHit(r, i).t)

\* C4: bvhClosestHit with maxT = Infinity returns the smallest hit distance
\* among all triangles of the mesh that rayTriangleIntersect reports as hit
\* (null exactly when there is none).
C4_ClosestHitIsNearestOfAll ==
  (pc = "closestDone" /\ maxT = Infinity) =>
    IF HitTris(ray) = {} THEN closestRes = Null
    ELSE closestRes # Null /\ IsNearest(ray, closestRes.t)

\* C5: bvhAnyHit(ray, maxDistance) is true if and only if bvhClosestHit(ray)
\* with no distance limit returned a hit with t <= maxDistance.
C5_AnyHitIffClosestWithin ==
  (pc = "anyDone" /\ maxT = Infinity) =>
    (anyRes <=> (closestRes # Null /\ XLe(closestRes.t, maxDist)))

\* C6: for a mesh with zero triangles buildBVH returns an empty array, and on
\* it bvhClosestHit returns null and bvhAnyHit returns false without reading
\* a node and without an error.
C6_EmptyMeshIsAMiss ==
  ALen(triangles) = 0 =>
    /\ Built => ALen(nodes) = 0
    /\ pc = "closestDone" => closestRes = Null
    /\ pc = "anyDone" => anyRes = FALSE
    /\ nodeReads = 0
    /\ ~err /\ pc # "error"

\* Both queries have returned on the BVH of the empty mesh.
C6_Witness == ALen(triangles) = 0 /\ pc = "anyDone" /\ closestRes = Null

----------------------------------------------------------------------------
(* Properties of rendering (specification SpecRender) *)

\* C7: before each primary ray _shadowSeed is set to a value computed from
\* (px, py, ax, ay) and the AA grid size only, so a sub-sample of an
\* unchanged scene draws the same fastRand values and gets the same colour
\* on every render, whatever was traced before it.
C7_SubSampleRepeatsExactly ==
  lastTrace # Null =>
    /\ lastTrace.seed0 =
         (lastTrace.key[3] * aa + lastTrace.key[5]) * WIDTH * aa
           + (lastTrace.key[2] * aa + lastTrace.key[4])
    /\ lastTrace.done =>
         LET first == firstTrace[lastTrace.key]
         IN /\ first.seed0 = lastTrace.seed0
            /\ first.draws = lastTrace.draws
            /\ first.col = lastTrace.col

\* A sub-sample that drew from fastRand has been traced a second time, the
\* generator having been left in another state before it than the first time.
C7_Witness ==
  /\ lastTrace # Null
  /\ lastTrace.done
  /\ lastTrace.repeat
  /\ lastTrace.draws # <<>>
  /\ firstTrace[lastTrace.key].prev # lastTrace.prev

----------------------------------------------------------------------------
(* Properties of shading (specification SpecShade) *)

\* The sequential traceRay has returned the colour of the path.
CpuReturned == shadePc \in {"cpuDone", "gpu", "done"}

\* The first hit is a triangle that faces the camera and the light
\* (N = L = -D, so N.L = 1 and N.H = 1), does not reflect, and whose shadow
\* and AO rays meet nothing.
FacingLitMatte ==
  /\ Len(path.hits) >= 1
  /\ path.hits[1].ndotl = I(1)
  /\ path.hits[1].ndoth = I(1)
  /\ path.hits[1].ddn = I(-1)
  /\ path.hits[1].reflectivity = I(0)
  /\ path.hits[1].shadowOcc = "none"
  /\ path.hits[1].aoOcc = "none"

\* C8 (as the code has it): for a triangle facing the camera and the light,
\* with reflectivity 0 and nothing occluded, traceRay returns per channel
\* surfaceColor * 1 + 255 * RT_SPECULAR_STR, clamped to 255: the brightness
\* ambient + 1 is capped at 1 and the specular highlight is added.  The
\* result is finite.
C8_FacingTriangleColour ==
  (CpuReturned /\ FacingLitMatte) =>
    \A c \in 1..3 :
      /\ cpuCol[c].k = "fin"
      /\ cpuCol[c] = XMin(I(255), XAdd(I(path.hits[1].color[c]), Fin(255, 2)))

\* The cube's colour (200, 80, 80), facing camera and light, has been shaded.
C8_Witness ==
  /\ CpuReturned
  /\ FacingLitMatte
  /\ path.hits[1].color = <<200, 80, 80>>
  /\ cpuCol = <<I(255), Fin(415, 2), Fin(415, 2)>>

\* C8 as stated: the colour is surfaceColor * (ambient + 1), clamped to
\* [0, 255].
C8_AsStated ==
  (CpuReturned /\ FacingLitMatte) =>
    \A c \in 1..3 :
      cpuCol[c] = XMax(I(0), XMin(I(255),
                    XMul(I(path.hits[1].color[c]), XAdd(ambient, I(1)))))

\* C9: for the same hits along a reflection path the recursive traceRay of
\* raytrace.js and the iterative traceRay of the shader produce the same
\* colour (compared after the clamp to 255 that the shader's main applies
\* to what its traceRay returned).
C9_BackendsAgree ==
  shadePc = "done" =>
    \A c \in 1..3 : cpuCol[c] = XMin(I(255), gpuCol[c])

----------------------------------------------------------------------------
(* Properties of constant injection (specification SpecInject) *)

\* The placeholders FRAG_SRC is written with.
RTPlaceholders ==
  { "__RT_EPSILON__", "__RT_SHADOW_BIAS__", "__RT_SPECULAR_EXP__",
    "__RT_SPECULAR_STR__", "__RT_LIGHT_RADIUS__", "__RT_SHADOW_SAMPLES__",
    "__RT_AO_SAMPLES__", "__RT_AO_RADIUS__", "__RT_AO_STRENGTH__",
    "__RT_MAX_BOUNCES__", "__RT_AA_GRID__" }

\* C10: every __RT_*__ placeholder occurring in FRAG_SRC has been replaced
\* by initShaderProgram when the source is compiled, so the shader's
\* constants are those of raytrace-common.js.
C10_EveryPlaceholderReplaced ==
  injectPc \in {"ready", "failed"} =>
    \A i \in 1..Len(fragSrc) : \A j \in 1..Len(fragSrc[i].text) :
      ~(fragSrc[i].text[j].k = "id" /\ fragSrc[i].text[j].name \in RTPlaceholders)

----------------------------------------------------------------------------
(* Properties of the BVH texture (specification SpecGpuBvh) *)

Packed == pc \in {"packed", "gpuClosest", "gpuAny", "gpuDone"}

\* nodes[i] with its box as a Float32Array holds it.
FroundBox(n) ==
  [n EXCEPT !.bmin = <<Fround(n.bmin[1]), Fround(n.bmin[2]), Fround(n.bmin[3])>>,
            !.bmax = <<Fround(n.bmax[1]), Fround(n.bmax[2]), Fround(n.bmax[3])>>]

\* C11: once packBVHNodes has packed a built BVH at a texel offset,
\* decoding the two slots of node i at offset + 2i as the shader does
\* recovers the node's kind, triangle index and children exactly, and its
\* box with every coordinate rounded to the nearest float32.
C11_PackedNodesDecode ==
  Packed =>
    \A i \in DOMAIN nodes :
      GpuNode(bvhData, bvhOff + 2 * i) = FroundBox(nodes[i])

\* A BVH with inner nodes packed at an offset other than 0, one of whose
\* boxes has a coordinate that float32 cannot hold.
C11_Witness ==
  /\ Packed
  /\ bvhOff > 0
  /\ \E i \in DOMAIN nodes : nodes[i].triIdx < 0
  /\ \E i \in DOMAIN nodes : FroundBox(nodes[i]) # nodes[i]

\* C11 as stated: decoding recovers every node's box itself.
C11_AsStated ==
  Packed =>
    \A i \in DOMAIN nodes : GpuNode(bvhData, bvhOff + 2 * i) = nodes[i]

----------------------------------------------------------------------------
(* Properties of the traversal stacks (specifications SpecDeep, SpecGpuBvh) *)

\* The hit distance of triangle i for the running ray, Null for a miss.
TrueHit(i) ==
  LET tri == triangles[i]
  IN rayTriangleIntersect(ray.o, ray.d, worldVerts[tri[1]], worldVerts[tri[2]],
                          worldVerts[tri[3]])

\* The shader's walk ends with a miss or with a hit that exists; on a full
\* stack it drops the push (lines 230-231), so a nearer hit may be lost.
GpuOverflowIsQuiet ==
  (pc = "gpuDone" /\ gpuBest.found) => TrueHit(gpuBest.ti) # Null

Log2Ceil(n) == Cardinality({ k \in 0..30 : 2 ^ k < n })

\* C20: for a BVH built by buildBVH over n >= 1 triangles, the number of
\* entries on the stack of bvhTraverse (stackPtr) and of the shader's walks
\* (sp) never exceeds ceil(log2 n) + 1, and so stays within 64 and 32
\* entries for every mesh whose triangles fit the TEX_WIDTH x TEX_HEIGHT
\* texels of the triangle texture.
C20_StackWithinDepthBound ==
  /\ ALen(triangles) >= 1 =>
       /\ stackPtr <= Log2Ceil(ALen(triangles)) + 1
       /\ gpuSp <= Log2Ceil(ALen(triangles)) + 1
  /\ Log2Ceil(TEX_WIDTH * TEX_HEIGHT) + 1 <= BVH_MAX_STACK
  /\ Log2Ceil(TEX_WIDTH * TEX_HEIGHT) + 1 <= BvhStackSize

\* bvhTraverse holds exactly ceil(log2 n) + 1 entries, for the largest mesh.
C20_Witness ==
  /\ pc \in {"closest", "any"}
  /\ ALen(triangles) = MaxGpuTris
  /\ stackPtr = Log2Ceil(MaxGpuTris) + 1

\* The shader's walk holds exactly ceil(log2 n) + 1 entries.
GpuStackAtBound ==
  /\ pc \in {"gpuClosest", "gpuAny"}
  /\ ALen(triangles) >= 4
  /\ gpuSp = Log2Ceil(ALen(triangles)) + 1

----------------------------------------------------------------------------
(* Properties of rayTriangleIntersect (specification Spec) *)

\* det, and u, v, t where det is not 0, computed apart from the tests.
MollerTrumbore(i) ==
  LET tri == triangles[i]
      v0 == worldVerts[tri[1]]
      e1 == VSub(worldVerts[tri[2]], v0)
      e2 == VSub(worldVerts[tri[3]], v0)
      p == Cross(ray.d, e2)
      det == Dot(e1, p)
      tvec == VSub(ray.o, v0)
      q == Cross(tvec, e1)
      D == IF det = 0 THEN 1 ELSE det
  IN [det |-> I(Abs(det)), u |-> Fin(Dot(tvec, p), D), v |-> Fin(Dot(ray.d, q), D),
      t |-> Fin(Dot(e2, q), D)]

\* C16: for the ray of the running query and every triangle of the mesh,
\* rayTriangleIntersect returns a value (it raises no error); the value is
\* null when |det| < RT_EPSILON, when u is outside [0, 1], when v < 0 or
\* u + v > 1, or when t < RT_EPSILON; and every value that is not null has
\* u >= 0, v >= 0, u + v <= 1 and t >= RT_EPSILON.
C16_NullOrInsideTriangle ==
  ray # Null =>
    \A i \in DOMAIN triangles :
      LET m == MollerTrumbore(i)
          h == TrueHit(i)
      IN /\ XLt(m.det, RT_EPSILON) => h = Null
         /\ (~XLt(m.det, RT_EPSILON)
               /\ \/ XLt(m.u, I(0)) \/ XGt(m.u, I(1))
                  \/ XLt(m.v, I(0)) \/ XGt(XAdd(m.u, m.v), I(1))
                  \/ XLt(m.t, RT_EPSILON)) => h = Null
         /\ h # Null =>
              /\ h = [t |-> m.t, u |-> m.u, v |-> m.v]
              /\ XGe(h.u, I(0)) /\ XGe(h.v, I(0))
              /\ XLe(XAdd(h.u, h.v), I(1))
              /\ XGe(h.t, RT_EPSILON)

\* A query that has found a hit in a leaf, in a mesh that also has a
\* triangle parallel to the ray (det = 0).
C16_Witness ==
  /\ ray # Null
  /\ pc = "closest"
  /\ best.hit # Null
  /\ \E i \in DOMAIN triangles : XLt(MollerTrumbore(i).det, RT_EPSILON)

----------------------------------------------------------------------------
(* Properties of the skip bookkeeping (specification SpecScene) *)

\* The ray was answered by an instance before surface x was reached.
AnsweredBefore(x) ==
  \E y \in tested \cap Instances(objCount) :
    rayHits[y] > 0 /\ (x = ENV_OBJ_IDX \/ y < x)

\* C17: ENV_OBJ_IDX is no instance index and not the -1 of a primary ray.
\* A primary ray is tested against every surface.  A reflection ray fired
\* from surface s is tested against every surface but s.  A shadow or AO
\* ray fired from s is never tested against s, and against every other
\* surface unless an instance before it has already occluded the ray.
C17_OwnSurfaceSkippedOthersTested ==
  /\ ENV_OBJ_IDX \notin Instances(objCount)
  /\ ENV_OBJ_IDX # -1
  /\ rayKind = "primary" => tested = Surfaces(objCount)
  /\ rayKind = "reflection" => tested = Surfaces(objCount) \ {skipObj}
  /\ rayKind \in {"shadow", "ao"} =>
       /\ hitObjIdx \notin tested
       /\ \A x \in Surfaces(objCount) \ {hitObjIdx} :
            x \in tested \/ AnsweredBefore(x)

\* A shadow ray fired from an instance between two others reaches the
\* environment: both other instances and the environment were tested.
C17_Witness ==
  /\ rayKind = "shadow"
  /\ objCount = MaxObjs
  /\ hitObjIdx = 1
  /\ tested = {0, 2, ENV_OBJ_IDX}
  /\ rayHits[ENV_OBJ_IDX] > 0

----------------------------------------------------------------------------
(* Properties of the frame loop (specification SpecRender) *)

\* The pixels putpixel has written since the last clear.
TracedPixels(buf) == { q \in AllPixels : buf[q].z # Infinity }

\* A step that presents something, and what C18 asks of it.
FlipStep == frame' # frame \/ frontData' # frontData
FlipsWholeFrame ==
  /\ renderPc = "trace" /\ py = HEIGHT
  /\ TracedPixels(backBuf) = AllPixels
  /\ frontData' = backBuf
  /\ frame' = frame + 1

\* A step that takes pixels away from backBuf, and what C18 asks of it.
ClearStep == ~(TracedPixels(backBuf) \subseteq TracedPixels(backBuf'))
StartsAfterFlip ==
  /\ renderPc = "idle"
  /\ frame > 0
  /\ frontData = backBuf
  /\ backBuf' = ClearedBuf
  /\ px' = 0 /\ py' = 0

\* C18: in raytrace mode every iteration of mainLoop runs clear, scene
\* build, trace of all pixels, flip in this order.  A flip happens only
\* when raytraceScene has returned with every pixel of the frame written,
\* and presents that frame; clear and the scene build of the next frame
\* (the step that takes pixels away from backBuf) start only when the frame
\* before has been flipped; what is presented is never a frame with only some of its pixels
\* traced.
C18_FlipOnlyAfterWholeFrame ==
  /\ [](TracedPixels(frontData) \in {{}, AllPixels})
  /\ [][FlipStep => FlipsWholeFrame]_vars
  /\ [][ClearStep => StartsAfterFlip]_vars

\* The second frame is partly traced while the first, complete, is shown.
C18_Witness ==
  /\ frame = 1
  /\ renderPc = "trace"
  /\ TracedPixels(backBuf) \notin {{}, AllPixels}
  /\ TracedPixels(frontData) = AllPixels

----------------------------------------------------------------------------
(* Properties of the sub-sample seeds (specification SpecSeed) *)

\* WIDTH * HEIGHT * aa * aa <= 2^32: every seed of the frame fits 32 bits.
SeedsFit32 ==
  AtMostTwoTo32(BigMulSmall(BigMulSmall(Big(WIDTH * HEIGHT), seedGrid), seedGrid))

----------------------------------------------------------------------------
(* Properties of the metaball mesh (specification SpecMesh) *)

Marched == meshPc \in {"marched", "returned", "drawn"} /\ mcCall # "none" /\ cellIdx > 0

\* The grid edges: the pairs of grid points one cell apart along one axis.
GridEdges(n) ==
  { <<a, b>> \in (0..(n * n * n - 1)) \X (0..(n * n * n - 1)) :
      \/ b = a + 1 /\ a % n # n - 1
      \/ b = a + n /\ (a \div n) % n # n - 1
      \/ b = a + n * n /\ a \div (n * n) # n - 1 }

KeySymmetric(n) == \A e \in GridEdges(n) : EdgeKey(e[1], e[2], n) = EdgeKey(e[2], e[1], n)
KeyUnique(n) ==
  Cardinality({ EdgeKey(e[1], e[2], n) : e \in GridEdges(n) }) = Cardinality(GridEdges(n))

Crossed(e) ==
  AtLeast(field[e[1]], METABALL_THRESHOLD) # AtLeast(field[e[2]], METABALL_THRESHOLD)

VertexEdges == { {vertEdge[i][1], vertEdge[i][2]} : i \in 1..Len(vertEdge) }

\* C14: the edge key is the same for both orders of a grid edge's corners
\* and different for different grid edges; no two vertices belong to the
\* same grid edge; once all cells are processed the vertices belong to
\* exactly the crossed grid edges; and every triangle corner holds the index
\* of the vertex of the grid edge its cell meant.
C14_OneVertexPerCrossedEdge ==
  /\ (meshPc = "cells" /\ cellIdx = 0) =>
       KeySymmetric(mcRes + 1) /\ KeyUnique(mcRes + 1)
  /\ meshPc \in {"cells", "marched"} =>
       /\ Len(vertEdge) = Len(mcVertices)
       /\ Cardinality(VertexEdges) = Len(mcVertices)
       /\ \A t \in 1..Len(mcTriangles) : \A k \in 1..3 :
            LET v == mcTriangles[t][k]
            IN  /\ v \in 0..(Len(mcVertices) - 1)
                /\ {vertEdge[v + 1][1], vertEdge[v + 1][2]} = triEdges[t][k]
  /\ meshPc = "marched" =>
       VertexEdges = { {e[1], e[2]} : e \in { g \in GridEdges(mcRes + 1) : Crossed(g) } }

\* A mesh whose vertices are shared: fewer vertices than triangle corners,
\* from a vertex made by one cell and found in the map by another.
C14_Witness ==
  /\ meshPc = "marched"
  /\ Len(mcTriangles) >= 8
  /\ Len(mcVertices) < Len(mcTriangles)

TriEdgeSet(t) == { {t[1], t[2]}, {t[2], t[3]}, {t[3], t[1]} }
MeshEdges == UNION { TriEdgeSet(mcTriangles[t]) : t \in 1..Len(mcTriangles) }
EdgeUses(e) ==
  Cardinality({ t \in 1..Len(mcTriangles) : e \in TriEdgeSet(mcTriangles[t]) })
Closed == \A e \in MeshEdges : Cardinality(e) = 2 /\ EdgeUses(e) = 2

\* The ball's sphere lies strictly inside the sampling grid.
StrictlyInside(b) ==
  LET hi == mcRes * cellSize
      c == << b.x - gridMin[1], b.y - gridMin[2], b.z - gridMin[3] >>
  IN  \A k \in 1..3 : c[k] - b.radius > 0 /\ c[k] + b.radius < hi

\* C15: for a single ball whose sphere lies strictly inside the grid, every
\* undirected edge of the mesh marchingCubes returns is in exactly two
\* triangles.
C15_SingleBallMeshClosed ==
  (Marched /\ Len(balls) = 1 /\ StrictlyInside(balls[1])) => Closed

\* A closed mesh of one ball that is more than the octahedron around a
\* single grid point.
C15_Witness ==
  /\ meshPc = "marched"
  /\ mcCall = "marchingCubes"
  /\ Len(balls) = 1 /\ StrictlyInside(balls[1])
  /\ Len(mcTriangles) >= 20
  /\ Closed

\* C13: generateMetaballMesh with no balls returns one vertex, no triangle
\* and one normal per vertex, and the frame drawn from it throws nothing in
\* any render mode.
C13_EmptyBallListDraws ==
  (meshPc = "drawn" /\ mcCall = "generateMetaballMesh" /\ Len(balls) = 0) =>
    /\ Len(mbMesh.vertices) = 1
    /\ Len(mbMesh.triangles) = 0
    /\ "normals" \in DOMAIN mbMesh
    /\ Len(mbMesh.normals) = Len(mbMesh.vertices)
    /\ frameErr = "none"

\* With balls the result has its three fields and its frame throws nothing.
BallMeshDraws ==
  (meshPc = "drawn" /\ Len(balls) > 0) =>
    /\ DOMAIN mbMesh = {"vertices", "triangles", "normals"}
    /\ Len(mbMesh.normals) = Len(mbMesh.vertices)
    /\ frameErr = "none"

\* With no balls the result is one vertex and no triangle, and only the
\* gpu-raytrace frame throws.
EmptyMeshThrowsOnGpuOnly ==
  (meshPc = "drawn" /\ Len(balls) = 0) =>
    /\ mbMesh = [vertices |-> << <<0, 0, 0>> >>, triangles |-> <<>>]
    /\ frameErr = "TypeError" <=> drawMode = "gpu-raytrace"

----------------------------------------------------------------------------
(* The two backends' seeds compared (specification SpecSeed) *)

\* C30: for AA grid sizes 1 and 2, raytraceScene and the shader's main give
\* a sub-sample (px, py, ax, ay) the same seed.
C30_BackendsSeedAlike ==
  (seedPc = "seeded" /\ seedGrid \in {1, 2}) => seedsCpu[1] = seedsGpu[1]

\* On a grid of size 1 the two seeds are the same pixel index.
SeedsAlikeWithoutAA ==
  (seedPc = "seeded" /\ seedGrid = 1) => seedsCpu = seedsGpu

----------------------------------------------------------------------------
(* The slab test against the geometry of ray and box (Spec, SpecGpuBvh) *)

\* The axes along which the ray moves, and the distances at which it enters
\* and leaves the slab of such an axis.
Moving(d) == { a \in 1..3 : d[a] # 0 }
AxisT(o, d, b, a) == XScale(b[a] - o[a], XInv(d[a]))
AxisEnter(o, d, bmin, bmax, a) == XMin(AxisT(o, d, bmin, a), AxisT(o, d, bmax, a))
AxisExit(o, d, bmin, bmax, a) == XMax(AxisT(o, d, bmin, a), AxisT(o, d, bmax, a))

\* No point of the ray's line lies in all three slabs.
SlabIntervalEmpty(o, d, bmin, bmax) ==
  \/ \E a \in (1..3) \ Moving(d) : o[a] < bmin[a] \/ o[a] > bmax[a]
  \/ \E a, b \in Moving(d) :
       XGt(AxisEnter(o, d, bmin, bmax, a), AxisExit(o, d, bmin, bmax, b))

\* The line meets the box, and leaves it before the origin.
EntirelyBehind(o, d, bmin, bmax) ==
  /\ ~SlabIntervalEmpty(o, d, bmin, bmax)
  /\ \E a \in Moving(d) : XLt(AxisExit(o, d, bmin, bmax, a), I(0))

\* The ray meets the box at some distance >= 0.
PassesInFront(o, d, bmin, bmax) ==
  /\ ~SlabIntervalEmpty(o, d, bmin, bmax)
  /\ \A a \in Moving(d) : XGe(AxisExit(o, d, bmin, bmax, a), I(0))

SlabAnswerRight(answer, o, d, bmin, bmax) ==
  /\ SlabIntervalEmpty(o, d, bmin, bmax) => ~answer
  /\ EntirelyBehind(o, d, bmin, bmax) => ~answer
  /\ PassesInFront(o, d, bmin, bmax) => answer

\* The node bvhTraverse pops next.
NextNode == StackRead(bvhStack, stackPtr - 1)
AtNode == pc \in {"closest", "any"} /\ stackPtr > 0 /\ NextNode \in DOMAIN nodes

\* C21: for the box of every node bvhTraverse pops, rayAABBIntersect is
\* false if the slab interval is empty or the box lies entirely behind the
\* origin, and true if the ray passes through the box in front of the origin.
C21_SlabTestMatchesGeometry ==
  AtNode =>
    SlabAnswerRight(rayAABBIntersect(ray.o, ray.d, nodes[NextNode].bmin,
                                     nodes[NextNode].bmax),
                    ray.o, ray.d, nodes[NextNode].bmin, nodes[NextNode].bmax)

\* rayAABBIntersect rejects every box with an empty slab interval.
EmptySlabRejected ==
  AtNode =>
    (SlabIntervalEmpty(ray.o, ray.d, nodes[NextNode].bmin, nodes[NextNode].bmax)
       => ~rayAABBIntersect(ray.o, ray.d, nodes[NextNode].bmin, nodes[NextNode].bmax))

\* rayAABBIntersect accepts no box that lies entirely behind the origin.
BehindBoxNeverAccepted ==
  AtNode =>
    ~(/\ EntirelyBehind(ray.o, ray.d, nodes[NextNode].bmin, nodes[NextNode].bmax)
      /\ rayAABBIntersect(ray.o, ray.d, nodes[NextNode].bmin, nodes[NextNode].bmax))

\* The shader's slab test is right for the box of every node its walk pops,
\* on rays that give it no NaN.
GpuSlabTestMatchesGeometry ==
  (pc \in {"gpuClosest", "gpuAny"} /\ gpuSp > 0) =>
    LET n == GpuNode(bvhData, gpuStack[gpuSp])
    IN  SlabAnswerRight(gpuRayAABBIntersect(ray.o, ray.d, n.bmin, n.bmax),
                        ray.o, ray.d, n.bmin, n.bmax)

----------------------------------------------------------------------------
(* Reflection paths: the accumulated weight (specification SpecShade) *)

\* Hit i of the path sends a reflected ray if bounces are left.
Reflects(i) ==
  XGt(path.hits[i].reflectivity, I(0)) /\ XLt(path.hits[i].ddn, I(0))

\* The product of the Fresnel weights of hits 1..k.
RECURSIVE WeightAfter(_)
WeightAfter(k) ==
  IF k = 0 THEN I(1)
  ELSE XMul(WeightAfter(k - 1),
            Fresnel(path.hits[k].reflectivity, path.hits[k].ddn))

\* The hits at which the accumulated weight is below the threshold.
Negligible ==
  { k \in 1..Len(path.hits) :
      /\ \A i \in 1..k : Reflects(i)
      /\ XLt(WeightAfter(k), GpuWeightFloor) }

\* C22: once the product of the Fresnel weights along the path is below
\* 0.01 at a hit, neither backend traces the ray reflected at that hit: the
\* sequential traceRay is not invoked for a level beyond it, and the
\* shader's loop does not go on to a further hit.
C22_NegligibleWeightStopsPath ==
  /\ shadePc \in {"cpuDone", "gpu", "done"} => \A k \in Negligible : calls <= k
  /\ shadePc = "done" => \A k \in Negligible : gpuDepth + 1 <= k

\* The shader's loop stops at such a hit.
GpuStopsAtNegligibleWeight ==
  shadePc = "done" => \A k \in Negligible : gpuDepth + 1 <= k

\* The weight falls below the threshold while bounces are left.
NegligibleBeforeLimit ==
  shadePc = "done" /\ \E k \in Negligible : k <= RT_MAX_BOUNCES

----------------------------------------------------------------------------
(* The sequential traceRay on long reflecting paths (specification SpecBounce) *)

\* C23: a call traceRay(..., RT_MAX_BOUNCES, ...) makes at most
\* RT_MAX_BOUNCES + 1 invocations of traceRay, never more than that many
\* nested, and returns, also on paths where every hit reflects and the
\* reflected ray hits again.
C23_BouncesBoundedAndReturn ==
  /\ [](calls <= RT_MAX_BOUNCES + 1 /\ Len(tstack) <= RT_MAX_BOUNCES + 1)
  /\ (shadePc = "cpu") ~> (shadePc = "cpuDone")

\* The call has returned from a path with more reflecting hits than
\* bounces, after RT_MAX_BOUNCES + 1 invocations.
C23_Witness ==
  /\ shadePc = "cpuDone"
  /\ Len(path.hits) > RT_MAX_BOUNCES + 1
  /\ calls = RT_MAX_BOUNCES + 1

DrawsPerHit == 3 * RT_SHADOW_SAMPLES + 3 * RT_AO_SAMPLES

\* The values a hit's shadowTest and aoTest were computed from, if they are
\* the 3 * RT_SHADOW_SAMPLES and the 3 * RT_AO_SAMPLES values that follow
\* the draws of the hits before it.
ShadowFromDraws(lvl) ==
  LET base == DrawsPerHit * (lvl - 1)
  IN  Fin(Cardinality({ k \in 0..(RT_SHADOW_SAMPLES - 1) :
                          OccBlocks(path.hits[lvl].shadowOcc, drawn[base + 3 * k + 1]) }),
          RT_SHADOW_SAMPLES)
AoFromDraws(lvl) ==
  LET base == DrawsPerHit * (lvl - 1) + 3 * RT_SHADOW_SAMPLES
  IN  Fin(Cardinality({ k \in 0..(RT_AO_SAMPLES - 1) :
                          /\ ~TinyDir(drawn[base + 3 * k + 1], drawn[base + 3 * k + 2],
                                      drawn[base + 3 * k + 3])
                          /\ OccBlocks(path.hits[lvl].aoOcc, drawn[base + 3 * k + 1]) }),
          RT_AO_SAMPLES)

\* C25: the values drawn are one stream of fastRand; when a hit is shaded
\* its shadow test has used the first 3 * RT_SHADOW_SAMPLES values after the
\* draws of the hits before it and its AO test the 3 * RT_AO_SAMPLES values
\* after those, so that each hit consumes 3 * RT_SHADOW_SAMPLES
\* + 3 * RT_AO_SAMPLES values before the reflected ray's hit draws.
C25_ShadowThenAoOneStream ==
  /\ drawn = Stream(0, Len(drawn))
  /\ \A i \in 1..Len(tstack) :
       LET f == tstack[i]
       IN  /\ f.phase \in {"shade", "reflect"} =>
                /\ Len(drawn) >= DrawsPerHit * f.lvl
                /\ f.shadow = ShadowFromDraws(f.lvl)
                /\ f.ao = AoFromDraws(f.lvl)
           /\ (i = Len(tstack) /\ f.phase \in {"enter", "shadow"}) =>
                Len(drawn) = DrawsPerHit * (f.lvl - 1)
           /\ (i = Len(tstack) /\ f.phase = "ao") =>
                /\ Len(drawn) = DrawsPerHit * (f.lvl - 1) + 3 * RT_SHADOW_SAMPLES
                /\ f.shadow = ShadowFromDraws(f.lvl)
           /\ (i = Len(tstack) /\ f.phase = "shade") =>
                Len(drawn) = DrawsPerHit * f.lvl

\* The reflected ray's hit has been shaded after the first one, some shadow
\* rays and some AO rays having been blocked.
C25_Witness ==
  /\ Len(tstack) = 2
  /\ tstack[2].phase = "shade"
  /\ Len(drawn) = 2 * DrawsPerHit
  /\ XGt(tstack[1].shadow, I(0)) /\ XLt(tstack[1].shadow, I(1))
  /\ XGt(tstack[2].ao, I(0)) /\ XLt(tstack[2].ao, I(1))

----------------------------------------------------------------------------
(* sceneIntersect against the hits of the scene (specification SpecClosest) *)

\* The surfaces sceneIntersect may return: the instances other than
\* skipObj that the ray meets, and the environment if it is met and not
\* skipped; with each its distance, colour and reflectivity.
SurfacesHit(objs, e, skip) ==
  { [t |-> objs[oi + 1].t, color |-> objs[oi + 1].color, objIdx |-> oi,
     reflectivity |-> objs[oi + 1].reflectivity] :
      oi \in { k \in 0..(Len(objs) - 1) : k # skip /\ objs[k + 1].t > 0 } }
  \cup (IF skip # ENV_OBJ_IDX /\ e > 0
        THEN {[t |-> e, color |-> <<200, 200, 200>>, objIdx |-> ENV_OBJ_IDX,
               reflectivity |-> I(0)]}
        ELSE {})

\* The scene with its instances in another order, and where skipObj is then.
Orders(n) == { p \in [1..n -> 1..n] : \A i, j \in 1..n : p[i] = p[j] => i = j }
Reordered(objs, p) == [i \in 1..Len(objs) |-> objs[p[i]]]
SkipReordered(skip, p) ==
  IF skip < 0 THEN skip ELSE (CHOOSE i \in DOMAIN p : p[i] = skip + 1) - 1

\* C24: sceneIntersect returns null exactly when the ray meets no instance
\* other than skipObj and not the environment (unless that is skipped);
\* otherwise the t it returns is the least distance of those hits, whatever
\* the order of the instances, and objIdx, colour and reflectivity are
\* those of a surface hit at that distance.
C24_ClosestOfAllSurfaces ==
  ciPc = "returned" =>
    LET hits == SurfacesHit(ciScene, ciEnv, ciSkip)
    IN /\ ciResult = Null <=> hits = {}
       /\ ciResult # Null =>
            /\ ciResult \in hits
            /\ \A h \in hits : ciResult.t <= h.t
            /\ \A p \in Orders(Len(ciScene)) :
                 closestIntersect(Reordered(ciScene, p), ciEnv,
                                  SkipReordered(ciSkip, p)).t = ciResult.t

\* The ray met a far instance first, then a nearer one, the skipped
\* instance nearer still, and the environment at the distance of the hit
\* that is returned.
C24_Witness ==
  /\ ciPc = "returned"
  /\ Len(ciScene) = 3
  /\ ciSkip = 2
  /\ ciScene[1].t = 3 /\ ciScene[2].t = 2 /\ ciScene[3].t = 1
  /\ ciEnv = 2
  /\ ciResult # Null /\ ciResult.objIdx = 1

----------------------------------------------------------------------------
(* The lookup tables against each other (specification SpecMesh) *)

\* The entries of TRI_TABLE[code] that the loop of lines 846-849 reads: in
\* threes, up to the first three that start with -1.
RECURSIVE EntriesRead(_, _)
EntriesRead(triList, t) ==
  IF t + 1 > Len(triList) \/ triList[t + 1] = -1 THEN {}
  ELSE {t + 1, t + 2, t + 3} \cup EntriesRead(triList, t + 3)

\* The entries before the -1 sentinel.
RECURSIVE BeforeSentinel(_, _)
BeforeSentinel(triList, i) ==
  IF i > Len(triList) \/ triList[i] = -1 THEN {}
  ELSE {i} \cup BeforeSentinel(triList, i + 1)

TablesAgree(code) ==
  LET triList == TRI_TABLE[code + 1]
      edges == EDGE_TABLE[code + 1]
  IN /\ EntriesRead(triList, 0) = BeforeSentinel(triList, 1)
     /\ \A i \in BeforeSentinel(triList, 1) :
          triList[i] \in 0..11 /\ EdgeCrossed(edges, triList[i])

\* C26: for each of the 256 corner codes every edge index of TRI_TABLE
\* before the sentinel is one whose bit is set in EDGE_TABLE, the loop that
\* emits triangles reads those entries only, and every index of every
\* triangle emitted is the index of a vertex.
C26_TriangleIndicesDefined ==
  /\ (meshPc = "cells" /\ cellIdx = 0) => \A code \in 0..255 : TablesAgree(code)
  /\ meshPc \in {"cells", "marched"} =>
       \A t \in 1..Len(mcTriangles) : \A k \in 1..3 :
         mcTriangles[t][k] >= 0 /\ mcTriangles[t][k] < Len(mcVertices)

\* marchingCubes has returned a mesh of a ball that is cut by a face of the
\* grid: cells of more than four kinds have emitted triangles.
C26_Witness ==
  /\ meshPc = "marched"
  /\ mcCall = "marchingCubes"
  /\ Len(mcTriangles) >= 8
  /\ LET n == mcRes + 1
     IN Cardinality({ CubeIndex(field, c % mcRes, (c \div mcRes) % mcRes,
                                c \div (mcRes * mcRes), n, METABALL_THRESHOLD) :
                        c \in 0..(mcRes * mcRes * mcRes - 1) }) > 4

----------------------------------------------------------------------------
(* The instance without triangles in the shader (specification SpecEmptyBvh) *)

\* The next iteration of the walk fetches a node of the mesh.
FetchesMeshNode ==
  /\ pc \in {"gpuClosest", "gpuAny"}
  /\ gpuSp > 0 /\ gpuIter < GPU_MAX_ITER
  /\ gpuStack[gpuSp] \in MeshTexels

\* C27: for the instance whose BVH has no node the shader's sceneIntersect
\* and anyHit report no hit, and their walks fetch no texel that holds a
\* node of the instance packed at the same offset.
C27_EmptyBvhInstanceIsNeverHit ==
  /\ pc = "gpuDone" => ~gpuBest.found
  /\ ~FetchesMeshNode

\* A ray that the slab test of [0, 0, 0]..[0, 0, 0] rejects reads nothing
\* and hits nothing.
RejectedRayReadsNothing ==
  (pc \in {"gpuClosest", "gpuAny", "gpuDone"}
     /\ ~gpuRayAABBIntersect(ray.o, ray.d, EmptyInstance.bmin, EmptyInstance.bmax))
  => (pc = "gpuDone" /\ ~gpuBest.found /\ gpuIter = 0)

\* A hit has been reported for the instance without triangles.
EmptyInstanceHit == pc = "gpuDone" /\ gpuBest.found

----------------------------------------------------------------------------
(* bvhClosestHit and the shader's bvhIntersect (specification SpecBothWalks) *)

BothWalked == pc = "gpuDone"

\* C29: on the same BVH and the same ray the shader's bvhIntersect finds a
\* hit exactly when bvhClosestHit does, at the same distance and on the
\* same triangle.
C29_WalksAgree ==
  BothWalked =>
    /\ gpuBest.found <=> closestRes # Null
    /\ gpuBest.found =>
         XEq(gpuBest.t, closestRes.t) /\ gpuBest.ti = closestRes.triIdx

\* The two walks find a hit for the same rays, and at the same distance.
WalksAgreeOnDistance ==
  BothWalked =>
    /\ gpuBest.found <=> closestRes # Null
    /\ gpuBest.found => XEq(gpuBest.t, closestRes.t)

\* Where no two triangles of the mesh are hit at the distance of the hit,
\* the walks agree on the triangle as well.
TiedAt(t) ==
  Cardinality({ i \in DOMAIN triangles :
                  LET h == GpuLeafHit(ray, i)
                  IN h # Null /\ XEq(h.t, t) }) > 1
WalksAgreeWithoutTies ==
  (BothWalked /\ gpuBest.found /\ closestRes # Null /\ ~TiedAt(closestRes.t))
    => gpuBest.ti = closestRes.triIdx

----------------------------------------------------------------------------
(* The relaxation loop of smoothMesh (specification SpecSmooth) *)

Relaxed == smPc = "relaxed"
SmNeighbors == neighborSets(smStart, smTriangles)

\* The mesh with vertex i renumbered to p[i].
Renumberings(vs) ==
  { p \in [DOMAIN vs -> DOMAIN vs] : \A i, j \in DOMAIN vs : p[i] = p[j] => i = j }
RenumberedVertices(vs, p) ==
  [k \in DOMAIN vs |-> vs[CHOOSE i \in DOMAIN vs : p[i] = k]]
RenumberedTriangles(tris, p) ==
  [t \in 1..Len(tris) |-> <<p[tris[t][1]], p[tris[t][2]], p[tris[t][3]]>>]

\* C28: after the relaxation loop every vertex that has neighbours is at
\* the midpoint between the position it had and the mean of the positions
\* its neighbours had when the loop began, and the loop run on a
\* renumbered mesh yields the same positions, renumbered.
C28_RelaxationIgnoresNumbering ==
  Relaxed =>
    /\ \A i \in DOMAIN smVertices :
         SmNeighbors[i] # {} => smVertices[i] = Blended(smStart, smStart, SmNeighbors, i)
    /\ \A p \in Renumberings(smStart) :
         LET vs == RenumberedVertices(smStart, p)
             after == RelaxFrom(0, vs, neighborSets(vs, RenumberedTriangles(smTriangles, p)))
         IN \A i \in DOMAIN smStart : after[p[i]] = smVertices[i]

\* What the loop does: a vertex is moved to the midpoint between its
\* position and the mean of its neighbours' positions at that moment, the
\* lower-numbered of which have been moved already.
MovedOrNot(j, i) == IF j < i THEN smVertices[j] ELSE smStart[j]
RelaxationInPlace ==
  Relaxed =>
    \A i \in DOMAIN smVertices :
      LET seen == [j \in DOMAIN smVertices |-> MovedOrNot(j, i)]
      IN smVertices[i] = IF SmNeighbors[i] = {} THEN smStart[i]
                         ELSE Blended(smStart, seen, SmNeighbors, i)

\* The vertex visited first moves as the claim says.
FirstVertexMovesToMidpoint ==
  (Relaxed /\ SmNeighbors[0] # {}) =>
    smVertices[0] = Blended(smStart, smStart, SmNeighbors, 0)

=============================================================================
